---------------------------- MODULE Spec2Model ----------------------------
(***************************************************************************)
(* A model of modelflat/twitchbot: the IRC codec, the cooldown tracker,    *)
(* the message history, and the receiver / executor / sender pipeline.     *)
(*                                                                         *)
(* Text is a sequence of code points, each code point written as a         *)
(* one-element TLA+ string ("a", " ", ":"); the code points of the Unicode *)
(* Tags block are written "U+E0000" ... "U+E001F".                         *)
(* Instants and Durations are integers; one unit is 100 ms.                *)
(* Option<T> is a sequence of length 0 (None) or 1 (Some(x) = <<x>>).      *)
(***************************************************************************)
EXTENDS Integers, Sequences, FiniteSets, TLC

---------------------------------------------------------------------------
(* Text helpers: the std::str operations the sources use. *)

None == <<>>
Some(x) == <<x>>
IsSome(o) == Len(o) = 1
Unwrap(o) == o[1]
UnwrapOr(o, dflt) == IF Len(o) = 1 THEN o[1] ELSE dflt

Drop(s, n) == SubSeq(s, n + 1, Len(s))
Take(s, n) == SubSeq(s, 1, n)

\* str::find(char): index of the first occurrence, 0 when absent
FindChar(s, c) ==
    IF \E i \in 1..Len(s) : s[i] = c
    THEN CHOOSE i \in 1..Len(s) : s[i] = c /\ \A j \in 1..(i - 1) : s[j] # c
    ELSE 0

\* str::rfind(char): index of the last occurrence, 0 when absent
RFindChar(s, c) ==
    IF \E i \in 1..Len(s) : s[i] = c
    THEN CHOOSE i \in 1..Len(s) : s[i] = c /\ \A j \in (i + 1)..Len(s) : s[j] # c
    ELSE 0

\* str::find(&str): index of the first occurrence of the pattern, 0 when absent
FindStr(s, p) ==
    LET hit(i) == i + Len(p) - 1 <= Len(s) /\ SubSeq(s, i, i + Len(p) - 1) = p
    IN  IF \E i \in 1..Len(s) : hit(i)
        THEN CHOOSE i \in 1..Len(s) : hit(i) /\ \A j \in 1..(i - 1) : ~hit(j)
        ELSE 0

StartsWith(s, p) == Len(s) >= Len(p) /\ SubSeq(s, 1, Len(p)) = p

\* str::split(char): at least one piece, empty pieces kept
RECURSIVE SplitChar(_, _)
SplitChar(s, c) ==
    LET i == FindChar(s, c)
    IN  IF i = 0 THEN <<s>>
        ELSE <<Take(s, i - 1)>> \o SplitChar(Drop(s, i), c)

\* str::split_terminator(&str): as split, but a trailing empty piece is dropped
RECURSIVE SplitStr(_, _)
SplitStr(s, p) ==
    LET i == FindStr(s, p)
    IN  IF i = 0 THEN <<s>>
        ELSE <<Take(s, i - 1)>> \o SplitStr(Drop(s, i + Len(p) - 1), p)

SplitTerminator(s, p) ==
    LET parts == SplitStr(s, p)
    IN  IF parts[Len(parts)] = <<>> THEN Take(parts, Len(parts) - 1) ELSE parts

\* str::splitn(2, char): <<head>> or <<head, rest>>
SplitN2(s, c) ==
    LET i == FindChar(s, c)
    IN  IF i = 0 THEN <<s>> ELSE <<Take(s, i - 1), Drop(s, i)>>

\* str::rsplitn(2, char): <<last>> or <<last, everything before>>
RSplitN2(s, c) ==
    LET i == RFindChar(s, c)
    IN  IF i = 0 THEN <<s>> ELSE <<Drop(s, i), Take(s, i - 1)>>

WhiteSpace == {" ", "\t"}

\* str::trim_start
RECURSIVE TrimStart(_)
TrimStart(s) ==
    IF s # <<>> /\ s[1] \in WhiteSpace THEN TrimStart(Drop(s, 1)) ELSE s

\* str::trim_start_matches(char)
RECURSIVE TrimStartMatches(_, _)
TrimStartMatches(s, c) ==
    IF s # <<>> /\ s[1] = c THEN TrimStartMatches(Drop(s, 1), c) ELSE s

\* Vec<&str>::join(&str)
RECURSIVE Join(_, _)
Join(parts, sep) ==
    IF parts = <<>> THEN <<>>
    ELSE IF Len(parts) = 1 THEN parts[1]
    ELSE parts[1] \o sep \o Join(Drop(parts, 1), sep)

SelectNonEmpty(parts) == SelectSeq(parts, LAMBDA x : x # <<>>)

---------------------------------------------------------------------------
(* The IRC codec (irc.rs). *)

PrefixNone == [kind |-> "None", nick |-> <<>>, user |-> <<>>, host |-> <<>>]
PrefixHost(h) == [kind |-> "Host", nick |-> <<>>, user |-> <<>>, host |-> h]
PrefixUserHost(u, h) == [kind |-> "UserHost", nick |-> <<>>, user |-> u, host |-> h]
PrefixFull(n, u, h) == [kind |-> "Full", nick |-> n, user |-> u, host |-> h]

\* Tags: BTreeMap<&str, Option<&str>>, a function from keys to Option
EmptyTags == [k \in {} |-> None]
TagsInsert(tags, key, val) ==
    [k \in (DOMAIN tags) \cup {key} |-> IF k = key THEN val ELSE tags[k]]

MessageDefault ==
    [tags |-> EmptyTags, prefix |-> PrefixNone, name |-> <<>>, args |-> <<>>,
     trailing |-> None]

RECURSIVE ParseTagPairs(_, _)
ParseTagPairs(pairs, tags) ==
    IF pairs = <<>> THEN tags
    ELSE LET pair == pairs[1]
             kv == SplitN2(pair, "=")
             val == IF Len(kv) = 2 THEN Some(kv[2]) ELSE None
         IN  IF pair = <<>> THEN ParseTagPairs(Drop(pairs, 1), tags)
             ELSE ParseTagPairs(Drop(pairs, 1), TagsInsert(tags, kv[1], val))

parse_tags(raw_tags) == ParseTagPairs(SplitChar(raw_tags, ";"), EmptyTags)

parse_prefix(prefix) ==
    LET hs == RSplitN2(prefix, "@")
    IN  IF Len(hs) = 2
        THEN LET nu == RSplitN2(hs[2], "!")
             IN  IF Len(nu) = 2 THEN PrefixFull(nu[2], nu[1], hs[1])
                 ELSE PrefixUserHost(nu[1], hs[1])
        ELSE PrefixHost(hs[1])

ParseErr(e) == [ok |-> FALSE, err |-> e, msg |-> MessageDefault]
ParseOk(m) == [ok |-> TRUE, err |-> "", msg |-> m]

\* the command + params + trailing section, after tags and prefix
ParseCommand(m, raw) ==
    LET idx == FindStr(raw, <<" ", ":">>)
        trailing == IF idx = 0 THEN None ELSE Some(Drop(raw, idx + 1))
        head == IF idx = 0 THEN raw ELSE Take(raw, idx - 1)
        toks == SplitChar(head, " ")
    IN  \* split() always yields a first piece, so "Command expected" never fires
        ParseOk([m EXCEPT !.trailing = trailing,
                          !.name = toks[1],
                          !.args = SelectNonEmpty(Drop(toks, 1))])

ParsePrefixed(m, raw) ==
    IF raw = <<>> THEN ParseErr("Unexpected end of input")
    ELSE IF raw[1] = ":"
    THEN LET prefix_end == FindChar(raw, " ")
         IN  IF prefix_end = 0 THEN ParseErr("Unexpected end of input")
             ELSE ParseCommand([m EXCEPT !.prefix = parse_prefix(SubSeq(raw, 2, prefix_end - 1))],
                               Drop(raw, prefix_end))
    ELSE ParseCommand(m, raw)

\* Message::parse
Parse(raw) ==
    IF raw = <<>> THEN ParseErr("Unexpected end of input")
    ELSE IF raw[1] = "@"
    THEN LET tag_end == FindChar(raw, " ")
         IN  IF tag_end = 0 THEN ParseErr("Unexpected end of input")
             ELSE ParsePrefixed([MessageDefault EXCEPT !.tags = parse_tags(SubSeq(raw, 2, tag_end - 1))],
                                Drop(raw, tag_end))
    ELSE ParsePrefixed(MessageDefault, raw)

\* Message::tag_value: None when the key is absent or carries no value
tag_value(m, key) == IF key \in DOMAIN m.tags THEN m.tags[key] ELSE None

\* Message::first_arg_as_channel_name
first_arg_as_channel_name(m) ==
    IF m.args = <<>> THEN None ELSE Some(TrimStartMatches(m.args[1], "#"))

\* impl Display for Prefix
FmtPrefix(p) ==
    CASE p.kind = "Full" -> <<":">> \o p.nick \o <<"!">> \o p.user \o <<"@">> \o p.host
      [] p.kind = "UserHost" -> <<":">> \o p.user \o <<"@">> \o p.host
      [] p.kind = "Host" -> <<":">> \o p.host
      [] OTHER -> <<>>

\* impl Display for Command
FmtCommand(m) ==
    IF m.args = <<>> THEN m.name ELSE m.name \o <<" ">> \o Join(m.args, <<" ">>)

\* Ord for &str, the order a BTreeMap iterates its keys in: byte by byte, a
\* proper prefix first
RECURSIVE StrLess(_, _)
StrLess(a, b) ==
    LET Ascii == <<" ", "!", "#", "0", "1", "2", ":", ";", "=", ">", "@", "A", "B", "C",
                   "a", "b", "c", "d", "e", "h", "n", "t", "u", "x", "y">>
        rank(c) == CHOOSE i \in 1..Len(Ascii) : Ascii[i] = c
    IN  IF b = <<>> THEN FALSE
        ELSE IF a = <<>> THEN TRUE
        ELSE IF a[1] = b[1] THEN StrLess(Drop(a, 1), Drop(b, 1))
        ELSE rank(a[1]) < rank(b[1])

\* lines 202-210: the tags in key order, joined by semicolons
RECURSIVE FmtTags(_)
FmtTags(tags) ==
    IF DOMAIN tags = {} THEN <<>>
    ELSE LET k == CHOOSE x \in DOMAIN tags : \A y \in DOMAIN tags \ {x} : StrLess(x, y)
             rest == [y \in DOMAIN tags \ {k} |-> tags[y]]
             one == IF IsSome(tags[k]) THEN k \o <<"=">> \o Unwrap(tags[k]) ELSE k
         IN  IF DOMAIN rest = {} THEN one ELSE one \o <<";">> \o FmtTags(rest)

\* impl Display for Message
FmtMessage(m) ==
    (IF DOMAIN m.tags = {} THEN <<>> ELSE <<"@">> \o FmtTags(m.tags) \o <<" ">>)
    \o (IF m.prefix.kind = "None" THEN <<>> ELSE FmtPrefix(m.prefix) \o <<" ">>)
    \o FmtCommand(m)
    \o (IF IsSome(m.trailing) THEN <<" ", ":">> \o Unwrap(m.trailing) ELSE <<>>)

\* a builder that loses the trailing
BuildLineNoTrailing(command_name, args, trailing) ==
    FmtMessage([MessageDefault EXCEPT !.name = command_name, !.args = args])

\* MessageBuilder::new(..).with_arg(..).with_trailing(..).string()
BuildLine(command_name, args, trailing) ==
    FmtMessage([MessageDefault EXCEPT !.name = command_name, !.args = args,
                                      !.trailing = trailing])

---------------------------------------------------------------------------
(* The cooldown tracker (cooldown.rs). *)

Ready == [ready |-> TRUE, remaining |-> 0]
NotReady(d) == [ready |-> FALSE, remaining |-> d]

\* CooldownData::new
CooldownDataNew(cooldown, reset, t) ==
    [value |-> cooldown, last_accessed |-> IF reset THEN t - cooldown ELSE t]

\* CooldownData::cooldown at instant t
Cooldown(data, t) ==
    LET when_reset == data.last_accessed + data.value
    IN  IF when_reset >= t THEN NotReady(when_reset - t) ELSE Ready

\* a try_reset that trusts an earlier readiness check instead of looking again
TryResetUnchecked(data, t) ==
    [state |-> Ready, data |-> [data EXCEPT !.last_accessed = t]]

\* CooldownData::try_reset at instant t: the state returned and the entry left
TryReset(data, t) ==
    LET when_reset == data.last_accessed + data.value
    IN  IF when_reset >= t
        THEN [state |-> NotReady(when_reset - t), data |-> data]
        ELSE [state |-> Ready, data |-> [data EXCEPT !.last_accessed = t]]

\* a check that never finds the entry cooling down
is_cooldown_never(data, t) == FALSE

\* lines 65-70
is_cooldown(data, t) == ~Cooldown(data, t).ready

\* CooldownTracker::new: every entry starts backdated by its interval
TrackerNew(init, t) == [k \in DOMAIN init |-> CooldownDataNew(init[k], TRUE, t)]

\* a contains that never finds the key
TrackerContainsNever(map, k) == FALSE

\* CooldownTracker::contains
TrackerContains(map, k) == k \in DOMAIN map

\* an access that reports the state and forgets to bump the last access
TrackerAccessPeek(map, k, t) ==
    IF k \notin DOMAIN map THEN [state |-> None, map |-> map]
    ELSE [state |-> Some(Cooldown(map[k], t)), map |-> map]

\* an access that restarts the interval when it turns the caller down
TrackerAccessSliding(map, k, t) ==
    IF k \notin DOMAIN map THEN [state |-> None, map |-> map]
    ELSE LET r == TryReset(map[k], t)
         IN  [state |-> Some(r.state), map |-> [map EXCEPT ![k].last_accessed = t]]

\* CooldownTracker::access with both clock readings at instant t:
\* the Option<CooldownState> returned and the map left
TrackerAccess(map, k, t) ==
    IF k \notin DOMAIN map THEN [state |-> None, map |-> map]
    ELSE LET peek == Cooldown(map[k], t)
             r == TryReset(map[k], t)
         IN  IF peek.ready
             THEN [state |-> Some(r.state), map |-> [map EXCEPT ![k] = r.data]]
             ELSE [state |-> Some(peek), map |-> map]

\* an update that builds the entry anew, as add_channel does
TrackerUpdateRebuilds(map, k, new_cooldown) ==
    [x \in (DOMAIN map) \cup {k} |->
        IF x = k THEN [value |-> new_cooldown, last_accessed |-> 0] ELSE map[x]]

\* an update that sets the interval of every entry
TrackerUpdateAll(map, k, new_cooldown) ==
    [x \in DOMAIN map |-> [map[x] EXCEPT !.value = new_cooldown]]

\* an update that lengthens the interval by the value it is given
TrackerUpdateAdds(map, k, new_cooldown) ==
    IF k \in DOMAIN map THEN [map EXCEPT ![k].value = @ + new_cooldown] ELSE map

\* CooldownTracker::update
TrackerUpdate(map, k, new_cooldown) ==
    IF k \in DOMAIN map THEN [map EXCEPT ![k].value = new_cooldown] ELSE map

\* CooldownTracker::add_channel
TrackerAddChannel(map, k, cooldown, reset, t) ==
    [x \in (DOMAIN map) \cup {k} |->
        IF x = k THEN CooldownDataNew(cooldown, reset, t) ELSE map[x]]

---------------------------------------------------------------------------
(* The message history (history.rs). *)

HistoryNew(channels) == [c \in channels |-> <<>>]

\* History::push at instant t
HistoryPush(hist, channel, data, t) ==
    IF channel \in DOMAIN hist
    THEN [hist EXCEPT ![channel] =
            Append(@, [timestamp |-> t, data |-> data, times_found |-> 0])]
    ELSE hist

\* the eviction loop of History::contains
RECURSIVE EvictExpired(_, _, _)
EvictExpired(queue, ttl, t) ==
    IF queue # <<>> /\ queue[1].timestamp + ttl < t
    THEN EvictExpired(Drop(queue, 1), ttl, t)
    ELSE queue

\* a contains that reports a hit and leaves the counter alone
HistoryContainsUncounted(hist, ttl, channel, data, t) ==
    IF channel \notin DOMAIN hist THEN [count |-> None, hist |-> hist]
    ELSE LET queue == EvictExpired(hist[channel], ttl, t)
         IN  [count |-> Some(IF \E i \in 1..Len(queue) : queue[i].data = data THEN 1 ELSE 0),
              hist |-> [hist EXCEPT ![channel] = queue]]

\* History::contains at instant t: the Option<usize> returned and the history left
HistoryContains(hist, ttl, channel, data, t) ==
    IF channel \notin DOMAIN hist THEN [count |-> None, hist |-> hist]
    ELSE LET queue == EvictExpired(hist[channel], ttl, t)
             found == {i \in 1..Len(queue) : queue[i].data = data}
         IN  IF found = {}
             THEN [count |-> Some(0), hist |-> [hist EXCEPT ![channel] = queue]]
             ELSE LET i == CHOOSE x \in found : \A y \in found : x <= y
                      n == queue[i].times_found + 1
                  IN  [count |-> Some(n),
                       hist |-> [hist EXCEPT ![channel] =
                                    [queue EXCEPT ![i].times_found = n]]]

---------------------------------------------------------------------------
(* The deduplication suffix (util.rs). *)

SUFFIX ==
    <<"U+E0000", "U+E0002", "U+E0003", "U+E0004", "U+E0005", "U+E0006", "U+E0007",
      "U+E0008", "U+E0009", "U+E000A", "U+E000B", "U+E000C", "U+E000D", "U+E000E",
      "U+E000F", "U+E0010", "U+E0011", "U+E0012", "U+E0013", "U+E0014", "U+E0015",
      "U+E0016", "U+E0017", "U+E0018", "U+E0019", "U+E001A", "U+E001B", "U+E001C",
      "U+E001D", "U+E001E", "U+E001F">>

\* a suffix choice that ignores the salt
modify_message_fixed(message, salt) == Append(message, SUFFIX[1])

\* a suffix choice that counts the salt from one
modify_message_shifted(message, salt) ==
    Append(message, SUFFIX[((salt + 1) % Len(SUFFIX)) + 1])

\* modify_message
modify_message(message, salt) == Append(message, SUFFIX[(salt % Len(SUFFIX)) + 1])

---------------------------------------------------------------------------
(* Permission levels (permissions.rs). *)

Admin == "Admin"
User == "User"
PermissionLevels == {User, Admin}

\* the enum discriminants: Admin = 100, User = 10
LevelValue(level) == IF level = Admin THEN 100 ELSE 10

\* a comparison turned around
permits_reversed(self, other) == LevelValue(self) <= LevelValue(other)

\* PermissionLevel::permits
permits(self, other) == LevelValue(self) >= LevelValue(other)

highest == Admin
lowest == User

\* PermissionList::get
PermissionGet(permissions, key) ==
    IF key \in DOMAIN permissions THEN permissions[key] ELSE lowest

---------------------------------------------------------------------------
(* The banphrase service (banphrase.rs). *)

\* what the HTTP call can come back with: a transport failure, or a JSON body
\* whose `banned` field is a boolean, something else, or missing
BanReplies ==
    {[transport |-> "err", kind |-> "none", banned |-> FALSE]} \cup
    {[transport |-> "ok", kind |-> "bool", banned |-> b] : b \in BOOLEAN} \cup
    {[transport |-> "ok", kind |-> k, banned |-> FALSE] : k \in {"string", "missing"}}

NoReply == [transport |-> "pending", kind |-> "none", banned |-> FALSE]

\* BanphraseAPI::check posts to the stored url whatever it is; a request to a
\* url that was never configured cannot be sent and resolves to Err
BanphraseCheck(configured) ==
    IF configured THEN BanReplies ELSE {r \in BanReplies : r.transport = "err"}

\* a decode that reads an undecodable body as "not banned"
BanphraseVerdictLenient(reply) ==
    IF reply.transport = "ok" /\ reply.kind = "bool" /\ reply.banned THEN "banned"
    ELSE IF reply.transport = "ok" THEN "clean"
    ELSE "transport"

\* the match on the response in sender_event_loop, with the serde decode of
\* BanphraseResponse { banned: bool }
BanphraseVerdict(reply) ==
    IF reply.transport = "ok"
    THEN IF reply.kind = "bool"
         THEN IF reply.banned THEN "banned" ELSE "clean"
         ELSE "weird"
    ELSE "transport"

---------------------------------------------------------------------------
(* Bounds of the model and parameters of the run. *)

MaxTime == 7            \* the clock stops here
MaxMsgs == 3            \* prepared messages handed to the sender
Concurrency == 2        \* for_each_concurrent limit (64 in lib.rs)
QueueCap == 2           \* capacity of the two mpsc channels (1024 in lib.rs)
ChannelCooldown == 2    \* initial_cooldown handed to MessagingState::new
HistoryTtl == 6         \* history_ttl handed to MessagingState::new
MaxFrames == 2          \* frames read from the socket
Threads == 2            \* threads calling access(k) at once
MaxCalls == 3           \* calls of access(k) they make in all
MaxCmds == 2            \* prepared commands handed to the executor
CmdCooldown == 2        \* command cooldown of bot and echo
LuaCooldown == 1        \* command cooldown of lua
UserCooldown == 3       \* user cooldown of lua

\* MODERATOR_CD: 100 ms, one unit
ModeratorCd == 1

S_c == <<"c">>
S_x == <<"x">>
S_hi == <<"h", "i">>
S_PRIVMSG == <<"P", "R", "I", "V", "M", "S", "G">>
S_PONG == <<"P", "O", "N", "G">>
S_PING == <<"P", "I", "N", "G">>
S_USERSTATE == <<"U", "S", "E", "R", "S", "T", "A", "T", "E">>

\* BotState.prefix as run() sets it
CommandPrefix == <<">", ">">>

\* BotState.username
Username == <<"b">>

\* the channels the bot joined, and a channel it did not
Channels == {S_c}
OtherChannels == {S_x}
Bodies == {S_hi}

---------------------------------------------------------------------------
VARIABLES
    now,            \* the monotonic clock (Instant::now())
    rx,             \* the receiver loop: pc, the segments of the frame left, a PONG to write
    rxLog,          \* every segment the receiver has dispatched, with what it did
    nFrames,        \* frames read from the socket so far
    cmdq,           \* the raw-command queue (tx_command / rx_command)
    nIssued,        \* prepared commands handed to the raw-command queue by Issue
    cmds,           \* one record per command the executor took, in order
    cmdCd,          \* the executor's GlobalCooldownTracker
    userCd,         \* the executor's UserCooldownTracker
    txm,            \* owner of the mutex around tx_message: 0 free, i executor future i
    acc,            \* calls of access(k) running on several threads at once
    outq,           \* the outbound queue (tx_message / rx_message)
    nSubmitted,     \* prepared messages handed to the outbound queue by Submit
    msgs,           \* one record per message the sender took, in order
    chanCd,         \* MessagingState.cooldowns
    history,        \* MessagingState.history
    banConfigured,  \* whether MessagingState was given a banphrase url
    sink,           \* owner of the socket sink lock: 0 free, -1 receiver, i sender future i
    sock,           \* every line written to the socket, with the instant
    unit            \* one library object exercised on its own, with the last call made

vars == <<now, rx, rxLog, nFrames, cmdq, nIssued, cmds, cmdCd, userCd, txm, acc, outq,
          nSubmitted, msgs, chanCd, history, banConfigured, sink, sock, unit>>

rxVars == <<rx, rxLog, nFrames, nIssued>>
exVars == <<cmds, cmdCd, userCd, txm, acc>>
msgVars == <<chanCd, history, banConfigured>>
appVars == <<rxVars, cmdq, exVars, outq, nSubmitted, msgs, msgVars, sink, sock>>

---------------------------------------------------------------------------
(* The sender (messaging.rs, sender_event_loop).  Each message taken from   *)
(* the outbound queue is one future of for_each_concurrent; a future runs  *)
(* from one .await to the next as one step.                                 *)

\* a lock that is handed to whoever asks
LockFreeAlways(owner) == TRUE

\* async_std::sync::Mutex: lock().await resolves only while nobody holds the guard
LockFree(owner) == owner = 0

InFlight(recs) == {i \in 1..Len(recs) : recs[i].pc # "done"}

\* a read guard of the channel's cooldown entry is alive in these states
HoldsGuard(m) == m.pc \in {"ban", "sleep", "lock", "write"}

NewMsg(pm) ==
    [channel |-> pm.channel, message |-> pm.message, text |-> pm.message,
     pc |-> "done", fate |-> "", wake |-> 0, reply |-> NoReply,
     t_hist |-> -1, seen |-> -1]

\* the executor (or any producer) hands a prepared message to the outbound queue
Submit(c, b) ==
    /\ nSubmitted < MaxMsgs
    /\ Len(outq) < QueueCap
    /\ outq' = Append(outq, [channel |-> c, message |-> b])
    /\ nSubmitted' = nSubmitted + 1
    /\ UNCHANGED <<now, unit, rxVars, cmdq, exVars, msgs, msgVars, sink, sock>>

\* lines 204-232: take a message, start the banphrase lookup, look at the
\* channel cooldown; the guard stays alive across the await
SenderTake ==
    /\ outq # <<>>
    /\ Cardinality(InFlight(msgs)) < Concurrency
    /\ LET pm == Head(outq)
           m == NewMsg(pm)
       IN  IF ~TrackerContains(chanCd, pm.channel)
           THEN msgs' = Append(msgs, [m EXCEPT !.fate = "no_channel"])
           ELSE LET st == Cooldown(chanCd[pm.channel], now)
                IN  msgs' = Append(msgs, [m EXCEPT !.pc = "ban",
                                                   !.wake = now + st.remaining])
    /\ outq' = Tail(outq)
    /\ UNCHANGED <<now, unit, rxVars, cmdq, exVars, nSubmitted, msgVars, sink, sock>>

\* lines 217-252: the lookup (and the delay joined with it) completes
SenderBanReply(i, reply) ==
    /\ msgs[i].pc = "ban"
    /\ now >= msgs[i].wake
    /\ reply \in BanphraseCheck(banConfigured)
    /\ msgs' = [msgs EXCEPT ![i] =
                  IF BanphraseVerdict(reply) = "clean"
                  THEN [@ EXCEPT !.pc = "contains", !.reply = reply, !.wake = 0]
                  ELSE [@ EXCEPT !.pc = "done", !.fate = "banphrase",
                                 !.reply = reply, !.wake = 0]]
    /\ UNCHANGED <<now, unit, rxVars, cmdq, exVars, outq, nSubmitted, msgVars, sink, sock>>

\* lines 273-299 up to the first await: try_reset under the guard
AfterHistory(m, cd, t) ==
    IF ~TrackerContains(cd, m.channel)
    THEN [m |-> [m EXCEPT !.pc = "done", !.fate = "no_channel"], cd |-> cd]
    ELSE LET r == TryReset(cd[m.channel], t)
         IN  IF r.state.ready
             THEN [m |-> [m EXCEPT !.pc = "lock"],
                   cd |-> [cd EXCEPT ![m.channel] = r.data]]
             ELSE [m |-> [m EXCEPT !.pc = "sleep", !.wake = t + r.state.remaining],
                   cd |-> [cd EXCEPT ![m.channel] = r.data]]

\* lines 257-265: history.contains; a seen message is modified and goes on to
\* try_reset without another await
SenderContains(i) ==
    /\ msgs[i].pc = "contains"
    /\ LET m == [msgs[i] EXCEPT !.t_hist = now, !.seen = Len(sock)]
           r == HistoryContains(history, HistoryTtl, m.channel, m.message, now)
       IN  IF ~IsSome(r.count)
           THEN /\ msgs' = [msgs EXCEPT ![i] = [m EXCEPT !.pc = "done", !.fate = "no_channel"]]
                /\ UNCHANGED <<history, chanCd>>
           ELSE IF Unwrap(r.count) = 0
           THEN /\ msgs' = [msgs EXCEPT ![i] = [m EXCEPT !.pc = "push"]]
                /\ history' = r.hist
                /\ UNCHANGED chanCd
           ELSE LET a == AfterHistory(
                            [m EXCEPT !.text = modify_message(m.message, Unwrap(r.count) - 1)],
                            chanCd, now)
                IN  /\ msgs' = [msgs EXCEPT ![i] = a.m]
                    /\ history' = r.hist
                    /\ chanCd' = a.cd
    /\ UNCHANGED <<now, unit, rxVars, cmdq, exVars, outq, nSubmitted, banConfigured, sink, sock>>

\* lines 267-277: history.push of the unmodified body, then try_reset
SenderPush(i) ==
    /\ msgs[i].pc = "push"
    /\ LET a == AfterHistory(msgs[i], chanCd, now)
       IN  /\ msgs' = [msgs EXCEPT ![i] = a.m]
           /\ chanCd' = a.cd
    /\ history' = HistoryPush(history, msgs[i].channel, msgs[i].text, now)
    /\ UNCHANGED <<now, unit, rxVars, cmdq, exVars, outq, nSubmitted, banConfigured, sink, sock>>

\* line 276: the delay after a not-ready try_reset is over; nothing is re-checked
SenderWake(i) ==
    /\ msgs[i].pc = "sleep"
    /\ now >= msgs[i].wake
    /\ msgs' = [msgs EXCEPT ![i] = [@ EXCEPT !.pc = "lock", !.wake = 0]]
    /\ UNCHANGED <<now, unit, rxVars, cmdq, exVars, outq, nSubmitted, msgVars, sink, sock>>

\* lines 288-290: the sink lock is acquired
SenderLock(i) ==
    /\ msgs[i].pc = "lock"
    /\ LockFree(sink)
    /\ sink' = i
    /\ msgs' = [msgs EXCEPT ![i] = [@ EXCEPT !.pc = "write"]]
    /\ UNCHANGED <<now, unit, rxVars, cmdq, exVars, outq, nSubmitted, msgVars, sock>>

\* lines 279-293: the PRIVMSG line is written and the lock and guard dropped
SenderWrite(i) ==
    /\ msgs[i].pc = "write"
    /\ sink = i
    /\ sock' = Append(sock,
                 [t |-> now, by |-> i,
                  line |-> BuildLine(S_PRIVMSG, <<<<"#">> \o msgs[i].channel>>,
                                     Some(msgs[i].text))])
    /\ sink' = 0
    /\ msgs' = [msgs EXCEPT ![i] = [@ EXCEPT !.pc = "done", !.fate = "sent"]]
    /\ UNCHANGED <<now, unit, rxVars, cmdq, exVars, outq, nSubmitted, msgVars>>

\* some sender future can run without waiting for the clock or the network
SenderRunnable ==
    \/ outq # <<>> /\ Cardinality(InFlight(msgs)) < Concurrency
    \/ \E i \in 1..Len(msgs) :
          \/ msgs[i].pc \in {"contains", "push", "write"}
          \/ msgs[i].pc = "sleep" /\ now >= msgs[i].wake
          \/ msgs[i].pc = "lock" /\ LockFree(sink)

SenderStep ==
    \/ SenderTake
    \/ \E i \in 1..Len(msgs) :
          \/ \E reply \in BanReplies : SenderBanReply(i, reply)
          \/ SenderContains(i)
          \/ SenderPush(i)
          \/ SenderWake(i)
          \/ SenderLock(i)
          \/ SenderWrite(i)

---------------------------------------------------------------------------
(* The executor (executor.rs).  Each prepared command taken from the        *)
(* raw-command queue is one future of for_each_concurrent.                  *)

S_display_name == <<"d", "i", "s", "p", "l", "a", "y", "-", "n", "a", "m", "e">>
S_bot == <<"b", "o", "t">>
S_echo == <<"e", "c", "h", "o">>
S_lua == <<"l", "u", "a">>
S_uo == <<"u", "o">>
S_nc == <<"n", "c">>
S_zz == <<"z", "z">>
S_m == <<"m">>
S_p == <<"p">>

\* the registry handed to run(): the handlers of the application, and two
\* more that declare only a user cooldown and no cooldown at all
Commands ==
    (S_bot :> [level |-> User, command |-> Some(CmdCooldown), user |-> None]) @@
    (S_echo :> [level |-> Admin, command |-> Some(CmdCooldown), user |-> None]) @@
    (S_lua :> [level |-> User, command |-> Some(LuaCooldown), user |-> Some(UserCooldown)]) @@
    (S_uo :> [level |-> User, command |-> None, user |-> Some(UserCooldown)]) @@
    (S_nc :> [level |-> User, command |-> None, user |-> None])

\* the permission list handed to run()
Permissions == (S_m :> Admin)

Success(channel, message) == [kind |-> "success", channel |-> channel, message |-> message]
SilentSuccess == [kind |-> "silent", channel |-> <<>>, message |-> <<>>]
Error == [kind |-> "error", channel |-> <<>>, message |-> <<>>]
Panic == [kind |-> "panic", channel |-> <<>>, message |-> <<>>]

\* ExecutableCommand::execute of the handler registered under name
Execute(name, command, message) ==
    LET channel == first_arg_as_channel_name(message)
        reply(text) == IF IsSome(channel) THEN Success(Unwrap(channel), text) ELSE Panic
    IN  CASE name = S_bot -> reply(S_bot)
          [] name = S_echo -> IF command = <<>> THEN SilentSuccess ELSE reply(command)
          [] name = S_lua -> IF command = <<>> THEN Error ELSE reply(<<"r">>)
          [] OTHER -> IF command = <<>> THEN SilentSuccess ELSE reply(command)

\* the (None, None) arm without its return: the handler runs
NoCooldownsFallsThrough == "invoked"

\* lines 172-176: a handler without any cooldown is skipped
NoCooldowns == "no_cooldowns"

\* lines 91-177 of execute: the cooldown gate.  t0 is the instant add_channel
\* reads, t the instant of the later readings
Gate(h, command_name, user, global, users, t0, t) ==
    LET pair == <<command_name, user>>
        users1 == IF IsSome(h.user) /\ ~TrackerContains(users, pair)
                  THEN TrackerAddChannel(users, pair, Unwrap(h.user), TRUE, t0)
                  ELSE users
        verdict(v, g, u) == [verdict |-> v, global |-> g, users |-> u]
    IN  IF ~IsSome(h.command) /\ IsSome(h.user)
        THEN LET a == TrackerAccess(users1, pair, t)
             IN  IF ~IsSome(a.state) THEN verdict("not_found", global, a.map)
                 ELSE IF Unwrap(a.state).ready THEN verdict("invoked", global, a.map)
                 ELSE verdict("cooldown", global, a.map)
        ELSE IF IsSome(h.command) /\ ~IsSome(h.user)
        THEN LET a == TrackerAccess(global, command_name, t)
             IN  IF ~IsSome(a.state) THEN verdict("not_found", a.map, users1)
                 ELSE IF Unwrap(a.state).ready THEN verdict("invoked", a.map, users1)
                 ELSE verdict("cooldown", a.map, users1)
        ELSE IF IsSome(h.command) /\ IsSome(h.user)
        THEN IF ~TrackerContains(users1, pair) THEN verdict("not_found", global, users1)
             ELSE IF is_cooldown(users1[pair], t) THEN verdict("cooldown", global, users1)
             ELSE LET a == TrackerAccess(global, command_name, t)
                      r == TryReset(users1[pair], t)
                  IN  IF ~IsSome(a.state) THEN verdict("not_found", a.map, users1)
                      ELSE IF ~Unwrap(a.state).ready THEN verdict("cooldown", a.map, users1)
                      ELSE IF r.state.ready
                      THEN verdict("invoked", a.map, [users1 EXCEPT ![pair] = r.data])
                      ELSE verdict("cooldown", a.map, users1)
        ELSE verdict(NoCooldowns, global, users1)

\* a lookup that falls back to the bot handler for a name it does not know
LookupDefault(commands, name) ==
    IF name \in DOMAIN commands THEN Some(commands[name]) ELSE Some(commands[S_bot])

\* line 79: state.commands.get(&command_name)
Lookup(commands, name) ==
    IF name \in DOMAIN commands THEN Some(commands[name]) ELSE None

ExecDead == \E i \in 1..Len(cmds) : cmds[i].pc = "panicked"

\* lines 60-186: take a prepared command and run execute up to its first
\* await: parse, split, permission gate, cooldown gate, the handler
ExecTake ==
    /\ cmdq # <<>>
    /\ ~ExecDead
    /\ Cardinality(InFlight(cmds)) < Concurrency
    /\ \E t0 \in {now - 1, now}, parsed \in {Parse(Head(cmdq).message)} :
         LET command == Head(cmdq)
             message == parsed.msg
             command_split == SplitN2(command.command, " ")
             command_name == command_split[1]
             command_body == IF Len(command_split) > 1 THEN command_split[2] ELSE <<>>
             user == UnwrapOr(tag_value(message, S_display_name), <<>>)
             rec == [name |-> command_name, user |-> user, t |-> now,
                     verdict |-> "", pc |-> "done", out |-> SilentSuccess]
         IN  IF ~parsed.ok
             THEN /\ cmds' = Append(cmds, [rec EXCEPT !.verdict = "panic", !.pc = "panicked"])
                  /\ UNCHANGED <<cmdCd, userCd>>
             ELSE IF ~IsSome(Lookup(Commands, command_name))
             THEN /\ cmds' = Append(cmds, [rec EXCEPT !.verdict = "no_command"])
                  /\ UNCHANGED <<cmdCd, userCd>>
             ELSE IF ~permits(PermissionGet(Permissions, user),
                              Unwrap(Lookup(Commands, command_name)).level)
             THEN /\ cmds' = Append(cmds, [rec EXCEPT !.verdict = "no_permission"])
                  /\ UNCHANGED <<cmdCd, userCd>>
             ELSE LET g == Gate(Unwrap(Lookup(Commands, command_name)), command_name, user, cmdCd, userCd, t0, now)
                      o == Execute(command_name, command_body, message)
                  IN  /\ cmdCd' = g.global
                      /\ userCd' = g.users
                      /\ cmds' = Append(cmds,
                            IF g.verdict # "invoked" THEN [rec EXCEPT !.verdict = g.verdict]
                            ELSE [rec EXCEPT !.verdict = "invoked", !.out = o,
                                             !.pc = CASE o.kind = "success" -> "lock"
                                                      [] o.kind = "panic" -> "panicked"
                                                      [] OTHER -> "done"])
    /\ cmdq' = Tail(cmdq)
    /\ UNCHANGED <<now, unit, rxVars, txm, acc, outq, nSubmitted, msgs, msgVars, sink, sock>>

\* lines 190-192: the mutex around tx_message is acquired
ExecLock(i) ==
    /\ ~ExecDead
    /\ cmds[i].pc = "lock"
    /\ txm = 0
    /\ txm' = i
    /\ cmds' = [cmds EXCEPT ![i].pc = "send"]
    /\ UNCHANGED <<now, unit, rxVars, cmdq, cmdCd, userCd, acc, outq, nSubmitted, msgs, msgVars, sink, sock>>

\* lines 193-195: the message is placed on the outbound queue once it has room
ExecSend(i) ==
    /\ ~ExecDead
    /\ cmds[i].pc = "send"
    /\ txm = i
    /\ Len(outq) < QueueCap
    /\ outq' = Append(outq, [channel |-> cmds[i].out.channel, message |-> cmds[i].out.message])
    /\ txm' = 0
    /\ cmds' = [cmds EXCEPT ![i].pc = "done"]
    /\ UNCHANGED <<now, unit, rxVars, cmdq, cmdCd, userCd, acc, nSubmitted, msgs, msgVars, sink, sock>>

ExecRunnable ==
    /\ ~ExecDead
    /\ \/ cmdq # <<>> /\ Cardinality(InFlight(cmds)) < Concurrency
       \/ \E i \in 1..Len(cmds) :
             \/ cmds[i].pc = "lock" /\ txm = 0
             \/ cmds[i].pc = "send" /\ Len(outq) < QueueCap

ExecStep ==
    \/ ExecTake
    \/ \E i \in 1..Len(cmds) :
          \/ ExecLock(i)
          \/ ExecSend(i)

\* a PRIVMSG line as the server sends it: an optional display-name tag, an
\* optional channel argument, the trailing
PrivmsgFrom(user, channel, trailing) ==
    (IF IsSome(user) THEN <<"@">> \o S_display_name \o <<"=">> \o Unwrap(user) \o <<" ">> ELSE <<>>)
    \o S_PRIVMSG
    \o (IF IsSome(channel) THEN <<" ", "#">> \o Unwrap(channel) ELSE <<>>)
    \o <<" ", ":">> \o trailing

\* the receiver (or any producer) hands a prepared command to the raw-command queue
Issue(user, channel, command) ==
    /\ nIssued < MaxCmds
    /\ Len(cmdq) < QueueCap
    /\ cmdq' = Append(cmdq, [message |-> PrivmsgFrom(user, channel, CommandPrefix \o command),
                             command |-> command])
    /\ nIssued' = nIssued + 1
    /\ UNCHANGED <<now, unit, rx, rxLog, nFrames, exVars, outq, nSubmitted, msgs, msgVars, sink, sock>>

---------------------------------------------------------------------------
(* The receiver (messaging.rs, receiver_event_loop): one loop that reads a  *)
(* frame, splits it at CRLF and dispatches every segment in turn.           *)

CRLF == <<"\r", "\n">>
S_badges == <<"b", "a", "d", "g", "e", "s">>
S_moderator == <<"m", "o", "d", "e", "r", "a", "t", "o", "r">>

\* BotState::try_convert_to_command
try_convert_to_command(prefix, username_with_at, m) ==
    IF ~IsSome(m.trailing) THEN None
    ELSE LET s == Unwrap(m.trailing)
         IN  IF StartsWith(s, prefix) THEN Some(TrimStart(Drop(s, Len(prefix))))
             ELSE IF StartsWith(s, username_with_at)
             THEN Some(TrimStart(Drop(s, Len(username_with_at))))
             ELSE None

\* a parse failure that is unwrapped instead of matched
OnParseErrorPanics == "panic"

\* line 181: a segment that does not parse is logged, nothing more
OnParseError == "parse_error"

\* lines 126-166: what the receiver decides for one segment
RxAction(raw) ==
    LET parsed == Parse(raw)
        m == parsed.msg
        act(what, arg) == [what |-> what, arg |-> arg]
    IN  IF ~parsed.ok THEN act(OnParseError, <<>>)
        ELSE IF m.name = S_PRIVMSG
        THEN LET command == try_convert_to_command(CommandPrefix, <<"@">> \o Username, m)
             IN  IF IsSome(command) THEN act("command", Unwrap(command)) ELSE act("none", <<>>)
        ELSE IF m.name = S_PING
        THEN act("ping", BuildLine(S_PONG, <<>>, Some(UnwrapOr(m.trailing, <<>>))))
        ELSE IF m.name = S_USERSTATE
        THEN LET channel == first_arg_as_channel_name(m)
                 badges == SplitTerminator(UnwrapOr(tag_value(m, S_badges), <<>>), <<",">>)
             IN  IF ~IsSome(channel) THEN act("panic", <<>>)
                 ELSE IF \E n \in 1..Len(badges) : StartsWith(badges[n], S_moderator)
                 THEN act("moderator", Unwrap(channel))
                 ELSE act("none", <<>>)
        ELSE act("none", <<>>)

\* line 119: a text frame arrives and is split at CRLF
RecvFrame(frame) ==
    /\ rx.pc = "idle"
    /\ nFrames < MaxFrames
    /\ nFrames' = nFrames + 1
    /\ LET segments == SplitTerminator(frame, CRLF)
       IN  rx' = [rx EXCEPT !.pending = segments,
                            !.pc = IF segments = <<>> THEN "idle" ELSE "dispatch"]
    /\ UNCHANGED <<now, unit, rxLog, cmdq, nIssued, exVars, outq, nSubmitted, msgs, msgVars, sink, sock>>

\* lines 185-186: a frame that is not text, or a socket error, is only logged
RecvOther ==
    /\ rx.pc = "idle"
    /\ nFrames < MaxFrames
    /\ nFrames' = nFrames + 1
    /\ UNCHANGED <<now, unit, rx, rxLog, cmdq, nIssued, exVars, outq, nSubmitted, msgs, msgVars, sink, sock>>

\* the next segment needs room in the raw-command queue, or the write lock of
\* a cooldown entry a sender future holds a read guard of
RxWaits(a) ==
    \/ a.what = "command" /\ Len(cmdq) >= QueueCap /\ ~ExecDead
    \/ a.what = "moderator"
       /\ \E i \in 1..Len(msgs) : HoldsGuard(msgs[i]) /\ msgs[i].channel = a.arg

\* lines 122-181 for the next segment, up to the first await that has to wait
RxDispatch ==
    /\ rx.pc = "dispatch"
    /\ \E a \in {RxAction(Head(rx.pending))} :
         LET raw == Head(rx.pending)
             rest == Tail(rx.pending)
             next == IF rest = <<>> THEN "idle" ELSE "dispatch"
         IN  /\ ~RxWaits(a)
             /\ rxLog' = Append(rxLog, [raw |-> raw,
                                         what |-> IF a.what = "command" /\ ExecDead
                                                  THEN "closed" ELSE a.what])
             /\ CASE a.what = "command" /\ ExecDead ->
                       \* line 170: the executor is gone and took the receiving
                       \* end of the queue with it, send fails and is expected
                       /\ rx' = [rx EXCEPT !.pc = "panicked"]
                       /\ UNCHANGED <<cmdq, chanCd>>
                  [] a.what = "command" /\ ~ExecDead ->
                       /\ cmdq' = Append(cmdq, [message |-> raw, command |-> a.arg])
                       /\ rx' = [rx EXCEPT !.pending = rest, !.pc = next]
                       /\ UNCHANGED chanCd
                  [] a.what = "ping" ->
                       /\ rx' = [rx EXCEPT !.pending = rest, !.pc = "lock", !.pong = a.arg]
                       /\ UNCHANGED <<cmdq, chanCd>>
                  [] a.what = "moderator" ->
                       /\ chanCd' = TrackerUpdate(chanCd, a.arg, ModeratorCd)
                       /\ rx' = [rx EXCEPT !.pending = rest, !.pc = next]
                       /\ UNCHANGED cmdq
                  [] a.what = "panic" ->
                       /\ rx' = [rx EXCEPT !.pc = "panicked"]
                       /\ UNCHANGED <<cmdq, chanCd>>
                  [] OTHER ->
                       /\ rx' = [rx EXCEPT !.pending = rest, !.pc = next]
                       /\ UNCHANGED <<cmdq, chanCd>>
    /\ UNCHANGED <<now, unit, nFrames, nIssued, exVars, outq, nSubmitted, msgs, history,
                   banConfigured, sink, sock>>

\* lines 172-174: the sink lock is acquired
RxLock ==
    /\ rx.pc = "lock"
    /\ LockFree(sink)
    /\ sink' = -1
    /\ rx' = [rx EXCEPT !.pc = "write"]
    /\ UNCHANGED <<now, unit, rxLog, nFrames, cmdq, nIssued, exVars, outq, nSubmitted, msgs, msgVars, sock>>

\* lines 175-177: the PONG line is written and the lock dropped
RxWrite ==
    /\ rx.pc = "write"
    /\ sink = -1
    /\ sock' = Append(sock, [t |-> now, by |-> 0, line |-> rx.pong])
    /\ sink' = 0
    /\ rx' = [rx EXCEPT !.pong = <<>>,
                        !.pc = IF rx.pending = <<>> THEN "idle" ELSE "dispatch"]
    /\ UNCHANGED <<now, unit, rxLog, nFrames, cmdq, nIssued, exVars, outq, nSubmitted, msgs, msgVars>>

RxRunnable ==
    \/ rx.pc = "dispatch" /\ ~RxWaits(RxAction(Head(rx.pending)))
    \/ rx.pc = "lock" /\ LockFree(sink)
    \/ rx.pc = "write"

RxStep == RxDispatch \/ RxLock \/ RxWrite

---------------------------------------------------------------------------
(* CooldownTracker::access (cooldown.rs) as a shared object: the tracker is *)
(* Sync, and a call is three steps another thread can run between: the     *)
(* peek of cooldown(), the clock reading of try_reset, and the check and   *)
(* bump under the write lock of last_accessed.                             *)

AccessKey == S_bot

\* lines 100-102 and 49-63: access() peeks with cooldown()
AccessPeek(th) ==
    /\ acc.pc[th] = "idle"
    /\ acc.calls < MaxCalls
    /\ acc' = [acc EXCEPT !.calls = @ + 1,
                          !.pc[th] = IF Cooldown(cmdCd[AccessKey], now).ready
                                     THEN "reset" ELSE "idle"]
    /\ UNCHANGED <<now, unit, rxVars, cmdq, cmds, cmdCd, userCd, txm, outq, nSubmitted, msgs,
                   msgVars, sink, sock>>

\* line 32: try_reset reads the clock before it asks for the write lock
AccessStamp(th) ==
    /\ acc.pc[th] = "reset"
    /\ acc' = [acc EXCEPT !.pc[th] = "locked", !.stamp[th] = now]
    /\ UNCHANGED <<now, unit, rxVars, cmdq, cmds, cmdCd, userCd, txm, outq, nSubmitted, msgs,
                   msgVars, sink, sock>>

\* lines 33-46: under the write lock, the check against the instant read
\* before and the bump
AccessCommit(th) ==
    /\ acc.pc[th] = "locked"
    /\ LET r == TryReset(cmdCd[AccessKey], acc.stamp[th])
       IN  /\ cmdCd' = [cmdCd EXCEPT ![AccessKey] = r.data]
           /\ acc' = [acc EXCEPT !.pc[th] = "idle",
                                 !.ready = IF r.state.ready THEN Append(@, acc.stamp[th]) ELSE @,
                                 !.raced = @ \/ ~r.state.ready]
    /\ UNCHANGED <<now, unit, rxVars, cmdq, cmds, userCd, txm, outq, nSubmitted, msgs,
                   msgVars, sink, sock>>

\* threads are preempted at any point: the clock runs whatever they do
TickFree ==
    /\ now < MaxTime
    /\ now' = now + 1
    /\ UNCHANGED <<unit, appVars>>

---------------------------------------------------------------------------
(* The clock.  Running code takes no model time: the clock advances only   *)
(* when every future waits for the network or for a delay.                 *)

Tick ==
    /\ now < MaxTime
    /\ ~SenderRunnable
    /\ ~ExecRunnable
    /\ ~RxRunnable
    /\ now' = now + 1
    /\ UNCHANGED <<unit, appVars>>

---------------------------------------------------------------------------
(* Initial states: the state run() builds before it spawns the loops; the  *)
(* loops start at a later instant than the one the trackers were built at. *)

InitChannels(configured, channels) ==
    /\ now = 1
    /\ rx = [pc |-> "idle", pending |-> <<>>, pong |-> <<>>]
    /\ rxLog = <<>>
    /\ nFrames = 0
    /\ cmdq = <<>>
    /\ cmds = <<>>
    /\ nIssued = 0
    /\ cmdCd = TrackerNew([n \in {x \in DOMAIN Commands : IsSome(Commands[x].command)} |->
                              Unwrap(Commands[n].command)], 0)
    /\ userCd = TrackerNew(EmptyTags, 0)
    /\ txm = 0
    /\ acc = [pc |-> [th \in 1..Threads |-> "idle"], stamp |-> [th \in 1..Threads |-> 0],
              calls |-> 0, ready |-> <<>>, raced |-> FALSE]
    /\ outq = <<>>
    /\ nSubmitted = 0
    /\ msgs = <<>>
    /\ chanCd = TrackerNew([c \in channels |-> ChannelCooldown], 0)
    /\ history = HistoryNew(channels)
    /\ banConfigured = configured
    /\ sink = 0
    /\ sock = <<>>

InitApp(configured) == InitChannels(configured, Channels)

\* no library object is exercised on its own while the program runs
InitWith(configured) == InitApp(configured) /\ unit = <<>>

(* The sender alone, fed by a producer of prepared messages. *)
InitSender == \E configured \in BOOLEAN : InitWith(configured)

NextSender ==
    \/ Tick
    \/ \E c \in Channels \cup OtherChannels, b \in Bodies : Submit(c, b)
    \/ SenderStep

SpecSender == InitSender /\ [][NextSender]_vars

(* The executor alone, fed by a producer of prepared commands; the sender   *)
(* only takes what the executor queued.                                     *)
ExecInputs ==
    {<<Some(S_m), Some(S_c), S_echo \o <<" ">> \o S_hi>>,
     <<Some(S_p), Some(S_c), S_echo \o <<" ">> \o S_hi>>,
     <<Some(S_m), Some(S_c), S_echo>>,
     <<None, Some(S_c), S_bot>>,
     <<Some(S_m), None, S_bot>>,
     <<Some(S_p), Some(S_c), S_uo \o <<" ">> \o S_hi>>,
     <<Some(S_p), Some(S_c), S_lua \o <<" ">> \o S_hi>>,
     <<Some(S_m), Some(S_c), S_lua \o <<" ">> \o S_hi>>,
     <<Some(S_p), Some(S_c), S_nc>>,
     <<Some(S_p), Some(S_c), S_zz>>}

NextExec ==
    \/ Tick
    \/ \E in \in ExecInputs : Issue(in[1], in[2], in[3])
    \/ ExecStep
    \/ SenderTake

SpecExec == InitWith(TRUE) /\ [][NextExec]_vars

(* Threads calling access on one key of a tracker. *)
NextAccess ==
    \/ TickFree
    \/ \E th \in 1..Threads : AccessPeek(th) \/ AccessStamp(th) \/ AccessCommit(th)

SpecAccess == InitWith(TRUE) /\ [][NextAccess]_vars

(* The whole pipeline, fed by frames from the socket. *)
S_t == <<"t">>
PingLine == S_PING \o <<" ", ":">> \o S_t
Frames ==
    {S_PING \o <<" ", ":">> \o S_hi,
     <<":", "s", " ">> \o PingLine \o CRLF \o PrivmsgFrom(Some(S_m), Some(S_c), CommandPrefix \o S_echo \o <<" ">> \o S_hi) \o CRLF,
     S_USERSTATE,
     <<"@">> \o S_badges \o <<"=">> \o S_moderator \o <<"/", "1", " ">> \o S_USERSTATE \o <<" ", "#">> \o S_c,
     PrivmsgFrom(None, None, <<"@">> \o Username \o <<" ">> \o S_bot),
     <<"@", "a">> \o CRLF \o CRLF \o <<"J", "O", "I", "N", " ", "#">> \o S_c \o CRLF
        \o PrivmsgFrom(Some(S_p), Some(S_c), S_hi)}

NextRecv ==
    \/ Tick
    \/ \E frame \in Frames : RecvFrame(frame)
    \/ RecvOther
    \/ RxStep
    \/ ExecStep
    \/ SenderStep

SpecRecv == InitWith(TRUE) /\ [][NextRecv]_vars

---------------------------------------------------------------------------
(* Properties of the sender. *)

\* the index in sock of the line sender future i wrote, 0 when it wrote none
WrittenIdx(i) ==
    IF \E n \in 1..Len(sock) : sock[n].by = i
    THEN CHOOSE n \in 1..Len(sock) : sock[n].by = i
    ELSE 0

SenderLines == {n \in 1..Len(sock) : sock[n].by > 0}

\* the wire form of a PRIVMSG to channel c with trailing text
PrivmsgLine(c, text) == S_PRIVMSG \o <<" ", "#">> \o c \o <<" ", ":">> \o text

\* C1 (as claimed): any two PRIVMSG lines the sender writes for a channel whose
\* cooldown interval stays at d are written at instants at least d apart.
C1_RateLimit ==
    \A n1, n2 \in SenderLines :
        LET c == msgs[sock[n1].by].channel
        IN  (n1 < n2 /\ msgs[sock[n2].by].channel = c
                     /\ chanCd[c].value = ChannelCooldown)
            => sock[n2].t - sock[n1].t >= ChannelCooldown

\* the futures that consulted the history for body b on channel c
Consulted(c, b) ==
    {i \in 1..Len(msgs) : msgs[i].channel = c /\ msgs[i].message = b /\ msgs[i].t_hist >= 0}

\* they were handled one after another: each line was on the socket before the
\* next future consulted the history
OneAfterAnother(I) ==
    \A k1, k2 \in I :
        k1 < k2 => WrittenIdx(k1) # 0 /\ WrittenIdx(k1) <= msgs[k2].seen

\* every consult fell inside the TTL window opened by the first one's push
InsideTtl(I) ==
    \A k1, k2 \in I :
        (\A k \in I : k1 <= k) => msgs[k2].t_hist <= msgs[k1].t_hist + HistoryTtl

\* the trailing expected for the j-th send of b
DedupTrailing(b, j) ==
    CASE j = 1 -> b
      [] j = 2 -> b \o <<"U+E0000">>
      [] j = 3 -> b \o <<"U+E0002">>
      [] OTHER -> b \o <<SUFFIX[((j - 2) % 31) + 1]>>

\* C6: the same body sent j times in a row to one channel inside the history
\* TTL goes out as b, b+U+E0000, b+U+E0002, ...: the j-th send carries the
\* suffix with index (j-2) mod 31.
C6_DedupSequence ==
    \A c \in Channels, b \in Bodies :
        LET I == Consulted(c, b)
        IN  (OneAfterAnother(I) /\ InsideTtl(I))
            => \A k \in I :
                  WrittenIdx(k) # 0
                  => sock[WrittenIdx(k)].line
                       = PrivmsgLine(c, DedupTrailing(b, Cardinality({x \in I : x <= k})))

\* three sends of one body in a row, all inside the window, all written
C6_Witness ==
    \E c \in Channels, b \in Bodies :
        LET I == Consulted(c, b)
        IN  /\ Cardinality(I) = 3
            /\ OneAfterAnother(I) /\ InsideTtl(I)
            /\ \A k \in I : WrittenIdx(k) # 0

\* the lookup of future i did not come back with a clear "not banned"
BadReply(i) ==
    \/ msgs[i].reply.transport = "err"
    \/ msgs[i].reply.transport = "ok" /\ msgs[i].reply.kind # "bool"
    \/ msgs[i].reply.transport = "ok" /\ msgs[i].reply.kind = "bool" /\ msgs[i].reply.banned

\* C7: a message whose banphrase lookup answered banned, failed in transport
\* or returned a body without a boolean `banned` is never written to the socket.
C7_BanphraseFailClosed ==
    \A i \in 1..Len(msgs) :
        BadReply(i) => /\ WrittenIdx(i) = 0
                       /\ msgs[i].pc = "done"
                       /\ msgs[i].fate = "banphrase"

\* a lookup of each failing kind was dropped while another message went out
C7_Witness ==
    /\ \E i \in 1..Len(msgs) : msgs[i].reply.transport = "ok" /\ msgs[i].reply.kind = "string"
    /\ \E i \in 1..Len(msgs) : msgs[i].reply.transport = "err"
    /\ \E i \in 1..Len(msgs) : msgs[i].fate = "sent"

\* C8 (as claimed): with no banphrase url configured the sender performs no
\* lookup, and no message for a known channel is dropped at the banphrase step.
C8_BanphraseOptional ==
    ~banConfigured
    => \A i \in 1..Len(msgs) : /\ msgs[i].reply = NoReply
                               /\ msgs[i].fate # "banphrase"

---------------------------------------------------------------------------
(* Properties of the executor. *)

Invoked(k) == cmds[k].verdict = "invoked"

\* future k placed its message on the outbound queue
Placed(k) == Invoked(k) /\ cmds[k].out.kind = "success" /\ cmds[k].pc = "done"

Finished(k) == cmds[k].pc \in {"done", "panicked"}

\* every message that ever reached the outbound queue was placed by a handler
\* invocation that returned Success, one message each
PlacedAccounting ==
    Len(outq) + Len(msgs) = nSubmitted + Cardinality({k \in 1..Len(cmds) : Placed(k)})

\* the handler registered under the name of command k declares only a command cooldown
CommandOnly(k) ==
    /\ cmds[k].name \in DOMAIN Commands
    /\ IsSome(Commands[cmds[k].name].command)
    /\ ~IsSome(Commands[cmds[k].name].user)

\* the level of the user of command k: the listed one, User when not listed
UserLevel(k) ==
    IF cmds[k].user \in DOMAIN Permissions THEN Permissions[cmds[k].user] ELSE "User"

Permitted(k) == ~(UserLevel(k) = "User" /\ Commands[cmds[k].name].level = "Admin")

\* command i found its command cooldown ready: no handler invocation of the
\* same name within the interval before it
StartsReady(i) ==
    \A k \in 1..(i - 1) :
        (cmds[k].name = cmds[i].name /\ Invoked(k))
        => cmds[i].t - cmds[k].t > Unwrap(Commands[cmds[i].name].command)

\* commands i and j: the same command-only command, the first from a ready
\* state, the second less than the interval later, both run to the end
TwiceWithin(i, j) ==
    /\ i < j
    /\ cmds[i].name = cmds[j].name
    /\ CommandOnly(i)
    /\ StartsReady(i)
    /\ cmds[j].t - cmds[i].t < Unwrap(Commands[cmds[i].name].command)
    /\ Finished(i) /\ Finished(j)

\* C3 (as claimed): a command-only command issued twice less than its interval
\* apart, by any users, from a ready state: the handler is invoked exactly once
\* and exactly one message is placed on the outbound queue.
C3_CooldownDenial ==
    \A i, j \in 1..Len(cmds) :
        TwiceWithin(i, j)
        => /\ Cardinality({k \in {i, j} : Invoked(k)}) = 1
           /\ Cardinality({k \in {i, j} : Placed(k)}) = 1

\* C3 (amended): when both users are permitted to run the command, the handler
\* is invoked for the first and denied for the second, and the two place at most
\* one message: exactly one when the invocation returned Success.
C3_CooldownDenialPermitted ==
    /\ PlacedAccounting
    /\ \A i, j \in 1..Len(cmds) :
          (TwiceWithin(i, j) /\ Permitted(i) /\ Permitted(j))
          => /\ Invoked(i)
             /\ cmds[j].verdict = "cooldown"
             /\ ~Placed(j)
             /\ cmds[i].out.kind = "success" => Placed(i)
             /\ cmds[i].out.kind # "success" => ~Placed(i)

\* echo twice by the admin inside the interval, one message out
C3_Witness ==
    \E i, j \in 1..Len(cmds) :
        /\ TwiceWithin(i, j) /\ Permitted(i) /\ Permitted(j)
        /\ cmds[i].t < cmds[j].t
        /\ Placed(i)
        /\ Len(outq) + Len(msgs) = 1

\* C4: a handler runs for a command of user u only if the level of u permits
\* the handler's level, an unlisted user (or a line without display-name)
\* having the lowest level; the lowest level never runs an Admin handler, every
\* level permits the lowest and the highest permits every level.
C4_PermissionGate ==
    /\ \A k \in 1..Len(cmds) :
          Invoked(k) => /\ cmds[k].name \in DOMAIN Commands
                        /\ Permitted(k)
    /\ lowest = "User" /\ highest = "Admin"
    /\ \A l \in PermissionLevels : permits(l, lowest) /\ permits(highest, l)
    /\ ~permits(lowest, highest)
    /\ \A u \in {<<>>, S_p} : PermissionGet(Permissions, u) = "User"

\* an unlisted user was refused echo, the admin ran it, and a line without
\* display-name ran a User-level handler
C4_Witness ==
    /\ \E k \in 1..Len(cmds) :
          cmds[k].verdict = "no_permission" /\ cmds[k].user = S_p /\ cmds[k].name = S_echo
    /\ \E k \in 1..Len(cmds) :
          Invoked(k) /\ cmds[k].user \in {S_m, <<>>}

\* command k names no handler, or a handler that declares no cooldown at all
NoHandlerOrNoCooldown(k) ==
    \/ cmds[k].name \notin DOMAIN Commands
    \/ /\ ~IsSome(Commands[cmds[k].name].command)
       /\ ~IsSome(Commands[cmds[k].name].user)

\* C5: a command whose name is not registered, or whose handler declares
\* neither cooldown, never invokes a handler and never places a message, and
\* the executor goes on with later commands.
C5_UnknownOrNoCooldown ==
    /\ PlacedAccounting
    /\ \A k \in 1..Len(cmds) :
          NoHandlerOrNoCooldown(k)
          => /\ ~Invoked(k) /\ ~Placed(k)
             /\ cmds[k].pc = "done"
             /\ txm # k

\* after such a command a later one ran its handler and placed its message
C5_Witness ==
    \E k, n \in 1..Len(cmds) :
        /\ k < n
        /\ NoHandlerOrNoCooldown(k)
        /\ Placed(n)

---------------------------------------------------------------------------
(* Properties of the receiver. *)

\* the PING lines the socket delivers, each with its trailing
PingLines ==
    {[raw |-> S_PING \o <<" ", ":">> \o S_hi, trailing |-> S_hi],
     [raw |-> <<":", "s", " ">> \o PingLine, trailing |-> S_t]}

TrailingOf(raw) == (CHOOSE p \in PingLines : p.raw = raw).trailing

\* the PING lines dispatched so far, and the lines the receiver wrote
Pings == SelectSeq(rxLog, LAMBDA e : \E p \in PingLines : p.raw = e.raw)
Pongs == SelectSeq(sock, LAMBDA w : w.by = 0)

\* C9: for every PING line with trailing T the receiver writes exactly one
\* line PONG :T to the socket, itself and under the sink lock; the line never
\* goes through the raw-command queue or the outbound queue.
C9_PingPong ==
    /\ Len(Pongs) = Len(Pings) - (IF rx.pc \in {"lock", "write"} THEN 1 ELSE 0)
    /\ \A n \in 1..Len(Pongs) :
          Pongs[n].line = <<"P", "O", "N", "G", " ", ":">> \o TrailingOf(Pings[n].raw)
    /\ rx.pc = "write" => sink = -1 /\ ~\E i \in 1..Len(msgs) : msgs[i].pc = "write"
    /\ \A n \in 1..Len(cmdq) : ~\E p \in PingLines : p.raw = cmdq[n].message
    /\ Len(cmdq) + Len(cmds)
         = Cardinality({n \in 1..Len(rxLog) : rxLog[n].what = "command"})
    /\ \A n \in 1..Len(rxLog) :
          (\E p \in PingLines : p.raw = rxLog[n].raw) => rxLog[n].what = "ping"
    /\ PlacedAccounting

\* two PINGs with different trailings were answered while a sender future
\* was writing too
C9_Witness ==
    /\ Len(Pongs) = 2
    /\ Pongs[1].line # Pongs[2].line
    /\ \E n \in 1..Len(sock) : sock[n].by > 0

\* C10 (as claimed): a well-formed line of a recognized command that lacks an
\* expected tag or argument is logged and dropped; the receiver and the
\* executor loops are still running afterwards.
C10_ProtocolErrorsNotFatal ==
    /\ rx.pc # "panicked"
    /\ ~ExecDead

---------------------------------------------------------------------------
(* Properties of the tracker as a shared object. *)

\* C2: however concurrent access(k) calls interleave, the check and the bump
\* of last_accessed are one critical section: the instants of any two calls
\* that returned Ready (the instant each call read and stored as the last
\* access) are at least the interval apart.
C2_AccessAtomic ==
    \A i, j \in 1..Len(acc.ready) :
        i < j => acc.ready[j] - acc.ready[i] >= cmdCd[AccessKey].value

\* two calls returned Ready and one that had peeked Ready lost the race
C2_Witness ==
    /\ Len(acc.ready) = 2
    /\ acc.raced

---------------------------------------------------------------------------
(* Parse failures in the receiver. *)

\* the segments the socket delivers that are not IRC lines: tags without a
\* command, and the empty segment
MalformedLines == {<<"@", "a">>, <<>>}

\* the receiver dispatches a malformed segment in this step
DispatchesMalformed ==
    /\ rx.pc = "dispatch"
    /\ Head(rx.pending) \in MalformedLines
    /\ Len(rxLog') = Len(rxLog) + 1

\* C11: a segment that fails to parse changes no pipeline state (nothing is
\* enqueued, nothing sent, no cooldown changed), and the receiver goes on to the
\* remaining segments of the frame and to later frames.
C11_ParseFailureNotFatal ==
    [][DispatchesMalformed
       => /\ UNCHANGED <<cmdq, cmds, cmdCd, userCd, txm, outq, msgs, chanCd, history,
                         sink, sock>>
          /\ rx'.pending = Tail(rx.pending)
          /\ rx'.pc = IF Tail(rx.pending) = <<>> THEN "idle" ELSE "dispatch"]_vars

\* two malformed segments were passed over, the rest of their frame was
\* dispatched, and a PING of a later frame was answered
C11_Witness ==
    \E n \in 1..Len(rxLog) :
        /\ rxLog[n].raw = <<"@", "a">>
        /\ Len(rxLog) >= n + 4
        /\ rxLog[n + 1].raw = <<>>
        /\ rxLog[n + 3].what = "none"
        /\ rxLog[n + 4].what = "ping"
        /\ Len(Pongs) = 1

---------------------------------------------------------------------------
(* A cooldown tracker exercised through its own interface: one caller makes *)
(* whole calls, a second thread has at most one try_reset under way, split  *)
(* at the clock reading of line 32.  A call made through a read guard of    *)
(* the map keeps update and add_channel of that key waiting.                *)

MaxOps == 3
TrackerCooldown == 2

TrackedKeys == {S_c, S_x}
Intervals == {TrackerCooldown - 1, TrackerCooldown + 1}

\* the record kept of the last call that returned
Returned(op, k, state, map) ==
    [op |-> op, key |-> k, t |-> now, state |-> state,
     value |-> IF k \in DOMAIN unit.map THEN unit.map[k].value ELSE 0,
     last |-> IF k \in DOMAIN map THEN Some(map[k].last_accessed) ELSE None,
     first |-> k \in unit.fresh,
     since |-> unit.lastReady[k],
     upd |-> unit.upd[k]]

Pending(k) == IsSome(unit.stamp) /\ Unwrap(unit.stamp).key = k

CanCall == unit.n + Len(unit.stamp) < MaxOps

\* lines 100-105
UnitAccess(k) ==
    /\ CanCall
    /\ LET r == TrackerAccess(unit.map, k, now)
       IN  unit' = [unit EXCEPT
                !.map = r.map,
                !.n = @ + 1,
                !.ret = Returned("access", k, r.state, r.map),
                !.fresh = @ \ {k},
                !.lastReady[k] = IF r.state = Some(Ready) THEN Some(now) ELSE @,
                !.upd[k] = None]
    /\ UNCHANGED <<now, appVars>>

\* lines 107-109 and 49-63: access_raw(k) and cooldown() on the guard
UnitPeek(k) ==
    /\ CanCall
    /\ k \in DOMAIN unit.map
    /\ unit' = [unit EXCEPT
            !.n = @ + 1,
            !.ret = Returned("peek", k, Some(Cooldown(unit.map[k], now)), unit.map)]
    /\ UNCHANGED <<now, appVars>>

\* lines 107-109 and 32: access_raw(k), then try_reset reads the clock
UnitResetStamp(k) ==
    /\ CanCall
    /\ unit.stamp = None
    /\ k \in DOMAIN unit.map
    /\ unit' = [unit EXCEPT !.stamp = Some([key |-> k, t |-> now])]
    /\ UNCHANGED <<now, appVars>>

\* lines 33-46: under the write lock, against the instant read before
UnitResetCommit ==
    /\ IsSome(unit.stamp)
    /\ LET k == Unwrap(unit.stamp).key
           r == TryReset(unit.map[k], Unwrap(unit.stamp).t)
       IN  unit' = [unit EXCEPT
                !.map[k] = r.data,
                !.n = @ + 1,
                !.stamp = None,
                !.ret = [Returned("try_reset", k, Some(r.state), (k :> r.data)) EXCEPT
                            !.t = Unwrap(unit.stamp).t],
                !.fresh = @ \ {k},
                !.upd[k] = IF r.state.ready THEN None ELSE @]
    /\ UNCHANGED <<now, appVars>>

\* lines 116-120
UnitUpdate(k, new_cooldown) ==
    /\ CanCall
    /\ ~Pending(k)
    /\ LET map == TrackerUpdate(unit.map, k, new_cooldown)
       IN  unit' = [unit EXCEPT
                !.map = map,
                !.n = @ + 1,
                !.ret = Returned("update", k, None, map),
                !.fresh = @ \ {k},
                !.lastReady[k] = None,
                !.upd[k] = IF k \in DOMAIN unit.map
                           THEN Some([last |-> unit.map[k].last_accessed,
                                      value |-> new_cooldown,
                                      wasReady |-> Cooldown(unit.map[k], now).ready])
                           ELSE None]
    /\ UNCHANGED <<now, appVars>>

\* lines 123-125
UnitAddChannel(k, cooldown, reset) ==
    /\ CanCall
    /\ ~Pending(k)
    /\ LET map == TrackerAddChannel(unit.map, k, cooldown, reset, now)
       IN  unit' = [unit EXCEPT
                !.map = map,
                !.n = @ + 1,
                !.ret = Returned("add_channel", k, None, map),
                !.fresh = IF reset THEN @ \cup {k} ELSE @ \ {k},
                !.lastReady[k] = None,
                !.upd[k] = None]
    /\ UNCHANGED <<now, appVars>>

\* lines 86-93: the tracker is built at the instant the caller starts
InitTracker ==
    /\ InitApp(TRUE)
    /\ unit = [map |-> TrackerNew((S_c :> TrackerCooldown), now),
               n |-> 0,
               stamp |-> None,
               ret |-> [op |-> "none", key |-> S_c, t |-> 0, state |-> None, value |-> 0,
                        last |-> None, first |-> FALSE, since |-> None, upd |-> None],
               fresh |-> {S_c},
               lastReady |-> [k \in TrackedKeys |-> None],
               upd |-> [k \in TrackedKeys |-> None]]

NextTracker ==
    \/ TickFree
    \/ \E k \in TrackedKeys : UnitAccess(k) \/ UnitPeek(k) \/ UnitResetStamp(k)
    \/ UnitResetCommit
    \/ \E k \in TrackedKeys, d \in Intervals : UnitUpdate(k, d)
    \/ \E k \in TrackedKeys, reset \in BOOLEAN : UnitAddChannel(k, TrackerCooldown, reset)

SpecTracker == InitTracker /\ [][NextTracker]_vars

---------------------------------------------------------------------------
(* Properties of the cooldown tracker. *)

ReturnedNotReady == IsSome(unit.ret.state) /\ ~Unwrap(unit.ret.state).ready

\* C12: after access(k) returned ready at t, with the interval of k unchanged
\* at d, an access(k) made at a time in (t, t+d) returns not-ready and leaves
\* last-access at t.
C12_CooldownMonotone ==
    /\ unit.ret.op = "access"
    /\ IsSome(unit.ret.since)
    /\ Unwrap(unit.ret.since) < unit.ret.t
    /\ unit.ret.t < Unwrap(unit.ret.since) + unit.ret.value
    => /\ ReturnedNotReady
       /\ unit.ret.last = unit.ret.since

\* an access inside the interval of an earlier ready access was turned down,
\* with time still to wait
C12_Witness ==
    /\ unit.ret.op = "access"
    /\ IsSome(unit.ret.since)
    /\ Unwrap(unit.ret.since) < unit.ret.t
    /\ unit.ret.t < Unwrap(unit.ret.since) + unit.ret.value
    /\ ReturnedNotReady
    /\ Unwrap(unit.ret.state).remaining > 0

\* C13: whenever access, peek or try_reset returns not-ready(r) for a key with
\* interval d, 0 < r <= d, for every timing and interleaving of callers.
C13_RemainingInRange ==
    /\ unit.ret.op \in {"access", "peek", "try_reset"}
    /\ ReturnedNotReady
    => /\ 0 < Unwrap(unit.ret.state).remaining
       /\ Unwrap(unit.ret.state).remaining <= unit.ret.value

\* C14: the first access of a key created start-ready returns ready, however
\* soon after the creation it is made.
C14_StartReady ==
    unit.ret.op = "access" /\ unit.ret.first => unit.ret.state = Some(Ready)

\* a call of the given kind returns in this step
Returns(op) == unit'.n = unit.n + 1 /\ unit'.ret.op = op

\* C15: update(k, d') replaces only the interval of k: last-access and every
\* other key are unchanged, an unknown key changes nothing, and the next
\* access(k) is ready exactly when the unchanged last-access plus d' is before
\* the instant of the call.
C15_UpdateOnlyInterval ==
    [][/\ Returns("update") =>
            LET k == unit'.ret.key
            IN  /\ DOMAIN unit'.map = DOMAIN unit.map
                /\ \A x \in DOMAIN unit.map :
                        /\ unit'.map[x].last_accessed = unit.map[x].last_accessed
                        /\ x # k => unit'.map[x].value = unit.map[x].value
                /\ k \in DOMAIN unit.map => unit'.map[k].value = Unwrap(unit'.upd[k]).value
       /\ Returns("access") /\ IsSome(unit'.ret.upd) =>
            LET u == Unwrap(unit'.ret.upd)
            IN  /\ unit.map[unit'.ret.key].last_accessed = u.last
                /\ unit.map[unit'.ret.key].value = u.value
                /\ Unwrap(unit'.ret.state).ready <=> u.last + u.value < now]_vars

\* an entry that was ready under the old interval was updated to a longer one
\* and the next access was turned down
C15_Witness ==
    /\ unit.ret.op = "access"
    /\ IsSome(unit.ret.upd)
    /\ Unwrap(unit.ret.upd).wasReady
    /\ ReturnedNotReady
    /\ unit.ret.last = Some(Unwrap(unit.ret.upd).last)

\* an entry on cooldown under the old interval was updated to a shorter one and
\* the next access went through
C15_WitnessShorter ==
    /\ unit.ret.op = "access"
    /\ IsSome(unit.ret.upd)
    /\ ~Unwrap(unit.ret.upd).wasReady
    /\ unit.ret.state = Some(Ready)

---------------------------------------------------------------------------
(* A message history exercised through its own interface by one caller.    *)

UnitTtl == 2

Payloads == {S_hi, <<"y", "o">>}

\* what the caller did with a payload on the channel the history knows
Unqueried == [pushes |-> 0, at |-> 0, asked |-> 0]

\* lines 36-45
UnitPush(channel, data) ==
    /\ unit.n < MaxOps
    /\ unit' = [unit EXCEPT
            !.hist = HistoryPush(unit.hist, channel, data, now),
            !.n = @ + 1,
            !.ret = [op |-> "push", key |-> channel, data |-> data, t |-> now,
                     count |-> None, did |-> unit.did[data]],
            !.did[data] = IF channel \in Channels
                          THEN [pushes |-> @.pushes + 1, at |-> now, asked |-> 0]
                          ELSE @]
    /\ UNCHANGED <<now, appVars>>

\* lines 51-76
UnitContains(channel, data) ==
    /\ unit.n < MaxOps
    /\ LET r == HistoryContains(unit.hist, UnitTtl, channel, data, now)
           did == IF channel \in Channels
                  THEN [unit.did[data] EXCEPT !.asked = @ + 1] ELSE unit.did[data]
       IN  unit' = [unit EXCEPT
                !.hist = r.hist,
                !.n = @ + 1,
                !.ret = [op |-> "contains", key |-> channel, data |-> data, t |-> now,
                         count |-> r.count, did |-> did],
                !.did[data] = did]
    /\ UNCHANGED <<now, appVars>>

\* lines 25-33
InitHistory ==
    /\ InitApp(TRUE)
    /\ unit = [hist |-> HistoryNew(Channels),
               n |-> 0,
               ret |-> [op |-> "none", key |-> S_c, data |-> S_hi, t |-> 0, count |-> None,
                        did |-> Unqueried],
               did |-> [data \in Payloads |-> Unqueried]]

NextHistory ==
    \/ TickFree
    \/ \E channel \in Channels \cup OtherChannels, data \in Payloads :
            UnitPush(channel, data) \/ UnitContains(channel, data)

SpecHistory == InitHistory /\ [][NextHistory]_vars

---------------------------------------------------------------------------
(* Properties of the message history. *)

\* C16: after one push(k, P) on a freshly initialized key, the m-th contains(k, P)
\* made within the TTL window returns exactly m; contains(k, Q) for a payload
\* never pushed returns 0 and adds no entry.
C16_HistoryCounting ==
    [][Returns("contains") /\ unit'.ret.key \in Channels =>
            LET k == unit'.ret.key
                did == unit'.ret.did
            IN  /\ did.pushes = 1 /\ now < did.at + UnitTtl
                    => unit'.ret.count = Some(did.asked)
                /\ did.pushes = 0
                    => /\ unit'.ret.count = Some(0)
                       /\ Len(unit'.hist[k]) <= Len(unit.hist[k])
                       /\ \A i \in 1..Len(unit'.hist[k]) :
                                unit'.hist[k][i].data # unit'.ret.data]_vars

\* the second query for a payload pushed once returned 2
C16_Witness ==
    /\ unit.ret.op = "contains"
    /\ unit.ret.did.pushes = 1
    /\ unit.ret.did.asked = 2
    /\ unit.ret.t < unit.ret.did.at + UnitTtl
    /\ unit.ret.count = Some(2)

\* C17: after push(k, P) at t with no later push of P, contains(k, P) returns at
\* least 1 at every query time in [t, t+TTL) and 0 at every query time >= t+TTL.
C17_HistoryExpiry ==
    /\ unit.ret.op = "contains"
    /\ unit.ret.key \in Channels
    /\ unit.ret.did.pushes >= 1
    => IF unit.ret.t < unit.ret.did.at + UnitTtl
       THEN IsSome(unit.ret.count) /\ Unwrap(unit.ret.count) >= 1
       ELSE unit.ret.count = Some(0)

---------------------------------------------------------------------------
(* modify_message called on its own, a few times in a row on one message,  *)
(* as the tests of util.rs do.                                              *)

MaxSalt == 32
MaxSuffixCalls == 2

\* lines 17-30: one call, with the message before and after it kept
UnitModify(salt) ==
    /\ Len(unit.calls) < MaxSuffixCalls
    /\ LET after == modify_message(unit.message, salt)
       IN  unit' = [message |-> after,
                    calls |-> Append(unit.calls, [salt |-> salt, before |-> unit.message,
                                                  after |-> after])]
    /\ UNCHANGED <<now, appVars>>

InitSuffix ==
    /\ InitApp(TRUE)
    /\ \E message \in {<<>>, S_hi, S_hi \o <<"U+E0000">>} :
            unit = [message |-> message, calls |-> <<>>]

NextSuffix == \E salt \in (0..MaxSalt) \cup {123123123} : UnitModify(salt)

SpecSuffix == InitSuffix /\ [][NextSuffix]_vars

---------------------------------------------------------------------------
(* Properties of modify_message. *)

HexDigit == <<"0", "1", "2", "3", "4", "5", "6", "7", "8", "9", "A", "B", "C", "D", "E", "F">>

\* the name of the code point U+E0000 + k of the Tags block, k < 256
TagName(k) == "U+E00" \o HexDigit[(k \div 16) + 1] \o HexDigit[(k % 16) + 1]

\* UTF-8 length of a character: one byte for ASCII, four bytes from U+10000 on
Utf8Len(c) == IF \E k \in 0..255 : c = TagName(k) THEN 4 ELSE 1

\* the element with index i of the list U+E0000, U+E0002, ..., U+E001F
SuffixAt(i) == IF i = 0 THEN TagName(0) ELSE TagName(i + 1)

Appended(call) == call.after[Len(call.after)]

\* C18: modify_message(s, n) keeps s as a prefix and appends exactly one code
\* point of at most 4 UTF-8 bytes, the element with index n mod 31 of the list
\* U+E0000, U+E0002, ..., U+E001F; U+E0001 is never appended, and salts that
\* differ modulo 31 append different code points.
C18_SuffixInvariant ==
    /\ \A i \in 1..Len(unit.calls) :
        LET call == unit.calls[i]
        IN  /\ Len(call.after) = Len(call.before) + 1
            /\ SubSeq(call.after, 1, Len(call.before)) = call.before
            /\ Appended(call) = SuffixAt(call.salt % 31)
            /\ Utf8Len(Appended(call)) <= 4
            /\ Appended(call) # TagName(1)
    /\ \A i, j \in 1..Len(unit.calls) :
        unit.calls[i].salt % 31 # unit.calls[j].salt % 31
            => Appended(unit.calls[i]) # Appended(unit.calls[j])

\* a salt past the end of the list wrapped around, after a call with another salt
C18_Witness ==
    /\ Len(unit.calls) = 2
    /\ unit.calls[1].salt = 30
    /\ Appended(unit.calls[1]) = "U+E001F"
    /\ unit.calls[2].salt = 32
    /\ Appended(unit.calls[2]) = "U+E0002"
    /\ unit.calls[2].before = S_hi \o <<"U+E001F">>

---------------------------------------------------------------------------
(* The codec on its own: a line is parsed, the message is written back with *)
(* Display and the text is parsed again.                                    *)

MaxLineLen == 3

\* every text of at most n of the characters that delimit the sections of a line
RECURSIVE TextsUpTo(_)
TextsUpTo(n) ==
    IF n = 0 THEN {<<>>}
    ELSE LET shorter == TextsUpTo(n - 1)
         IN  shorter \cup {Append(t, c) : t \in shorter,
                                           c \in {"@", ":", " ", "a", "=", ";", "!"}}

\* lines of the shape the server sends, section by section
ServerLines ==
    {tags \o prefix \o command \o trailing :
        tags \in {<<>>, <<"@", "b", ";", "a", "=", "1", " ">>, <<"@", "a", "=", ";", "a", "=", "2", " ">>},
        prefix \in {<<>>, <<":", "h", " ">>, <<":", "u", "@", "h", " ">>,
                    <<":", "n", "!", "u", "@", "h", " ">>},
        command \in {<<"C">>, <<"C", " ", "#", "c">>, <<"C", " ", " ", "x", " ", "y">>},
        trailing \in {<<>>, <<" ", ":">>, <<" ", ":", "t", " ", ":", "u">>}}

\* lines 87-161
UnitParse ==
    /\ unit.stage = "raw"
    /\ unit' = [unit EXCEPT !.stage = "parsed", !.first = Parse(unit.line)]
    /\ UNCHANGED <<now, appVars>>

\* lines 197-231, then lines 87-161 on the text written
UnitReparse ==
    /\ unit.stage = "parsed"
    /\ unit.first.ok
    /\ LET text == FmtMessage(unit.first.msg)
       IN  unit' = [unit EXCEPT !.stage = "done", !.text = text, !.second = Parse(text)]
    /\ UNCHANGED <<now, appVars>>

InitCodec ==
    /\ InitApp(TRUE)
    /\ \E line \in TextsUpTo(MaxLineLen) \cup ServerLines :
            unit = [line |-> line, stage |-> "raw", first |-> ParseErr(""), text |-> <<>>,
                    second |-> ParseErr("")]

NextCodec == UnitParse \/ UnitReparse

SpecCodec == InitCodec /\ [][NextCodec]_vars

---------------------------------------------------------------------------
(* Properties of the codec. *)

\* C19: for every line L that parse accepts, serialize(parse(L)) is accepted by
\* parse and yields a message equal to parse(L) in tags, prefix, command name,
\* argument list and trailing.
C19_CodecRoundTrip ==
    unit.stage = "done" => unit.second.ok /\ unit.second.msg = unit.first.msg

---------------------------------------------------------------------------
(* The socket sink. *)

\* the tasks that are writing a line to the sink: -1 the receiver, i sender future i
SinkWriters ==
    (IF rx.pc = "write" THEN {-1} ELSE {}) \cup {i \in 1..Len(msgs) : msgs[i].pc = "write"}

\* C20: at every moment at most one task, the receiver writing a PONG or one
\* sender future writing a PRIVMSG, is writing to the socket sink; a task takes
\* the sink lock from free, writes exactly one whole line while it holds it and
\* releases it with that line.
C20_SinkMutualExclusion ==
    /\ [](/\ Cardinality(SinkWriters) <= 1
          /\ SinkWriters = IF sink = 0 THEN {} ELSE {sink})
    /\ [][/\ sink' # sink => (sink = 0 /\ sock' = sock) \/ (sink' = 0 /\ sock' # sock)
          /\ sock' # sock =>
                /\ sink # 0 /\ sink' = 0
                /\ Len(sock') = Len(sock) + 1
                /\ SubSeq(sock', 1, Len(sock)) = sock
                /\ sock'[Len(sock')].by = (IF sink = -1 THEN 0 ELSE sink)
                /\ sock'[Len(sock')].line =
                        (IF sink = -1 THEN rx.pong
                         ELSE BuildLine(S_PRIVMSG, <<<<"#">> \o msgs[sink].channel>>,
                                        Some(msgs[sink].text)))]_vars

\* a sender future holds the sink for its PRIVMSG while the receiver waits for it
\* with a PONG, after an earlier PONG has been written
C20_Witness ==
    /\ rx.pc = "lock"
    /\ \E i \in 1..Len(msgs) : msgs[i].pc = "write" /\ sink = i
    /\ Len(sock) = 1
    /\ sock[1].by = 0

---------------------------------------------------------------------------
(* The whole run: initialize writes the login lines on the fresh socket,   *)
(* run() then spawns the sender and the executor and blocks on the         *)
(* receiver; when the stream ends the receiver returns, run() returns and  *)
(* the runtime is dropped.                                                  *)

\* a login that joins the channels before it has authenticated
RECURSIVE HandshakeLinesJoinFirst(_, _, _)
HandshakeLinesJoinFirst(username, password, channels) ==
    IF channels = <<>>
    THEN <<<<"P", "A", "S", "S", " ", "o", "a", "u", "t", "h", ":">> \o password,
           <<"N", "I", "C", "K", " ">> \o username,
           <<"C", "A", "P", " ", "R", "E", "Q", " ", ":">>>>
    ELSE <<<<"J", "O", "I", "N", " ", "#">> \o channels[1]>>
         \o HandshakeLinesJoinFirst(username, password, Drop(channels, 1))

\* messaging.rs lines 81-103: the lines initialize sends, in order
RECURSIVE HandshakeLines(_, _, _)
HandshakeLines(username, password, channels) ==
    IF channels = <<>>
    THEN <<<<"P", "A", "S", "S", " ", "o", "a", "u", "t", "h", ":">> \o password,
           <<"N", "I", "C", "K", " ">> \o username,
           <<"C", "A", "P", " ", "R", "E", "Q", " ", ":", "t", "w", "i", "t", "c", "h", ".",
             "t", "v", "/", "t", "a", "g", "s", " ", "t", "w", "i", "t", "c", "h", ".", "t",
             "v", "/", "c", "o", "m", "m", "a", "n", "d", "s", " ", "t", "w", "i", "t", "c",
             "h", ".", "t", "v", "/", "m", "e", "m", "b", "e", "r", "s", "h", "i", "p">>>>
    ELSE Append(HandshakeLines(username, password, Take(channels, Len(channels) - 1)),
                <<"J", "O", "I", "N", " ", "#">> \o channels[Len(channels)])

\* messaging.rs lines 81-103 and lib.rs lines 45-92: one send of initialize; after
\* the last one the loops are spawned
Initialize ==
    /\ unit.phase = "login"
    /\ LET lines == HandshakeLines(Username, unit.password, unit.channels)
           n == Len(sock) + 1
       IN  /\ sock' = Append(sock, [t |-> now, by |-> -2, line |-> lines[n]])
           /\ unit' = [unit EXCEPT !.phase = IF n = Len(lines) THEN "running" ELSE "login"]
    /\ UNCHANGED <<now, rxVars, cmdq, exVars, outq, nSubmitted, msgs, msgVars, sink>>

\* messaging.rs line 119: next() yields None, the receiver loop returns
StreamEnd ==
    /\ unit.phase = "running"
    /\ rx.pc = "idle"
    /\ unit' = [unit EXCEPT !.phase = "closed"]
    /\ UNCHANGED <<now, appVars>>

\* lib.rs lines 87-93: block_on returns and run() drops the runtime; the work
\* that is scheduled is run, every future that is still pending is dropped
RuntimeDrop ==
    /\ unit.phase = "closed"
    /\ ~ExecRunnable
    /\ ~SenderRunnable
    /\ unit' = [unit EXCEPT !.phase = "dropped"]
    /\ UNCHANGED <<now, appVars>>

LifeFrames ==
    {PingLine,
     PrivmsgFrom(Some(S_m), Some(S_c), CommandPrefix \o S_echo \o <<" ">> \o S_hi)}

InitLife ==
    /\ unit = [phase |-> "login", password |-> <<"p", "w">>, channels |-> <<S_x, S_c>>]
    /\ InitChannels(TRUE, {S_x, S_c})

NextLife ==
    \/ Initialize
    \/ unit.phase = "running" /\ \E frame \in LifeFrames : RecvFrame(frame)
    \/ unit.phase = "running" /\ RxStep
    \/ StreamEnd
    \/ unit.phase \in {"running", "closed"} /\ Tick
    \/ unit.phase \in {"running", "closed"} /\ ExecStep
    \/ unit.phase \in {"running", "closed"} /\ SenderStep
    \/ RuntimeDrop

SpecLife == InitLife /\ [][NextLife]_vars

---------------------------------------------------------------------------
(* Properties of the whole run. *)

LoginLines == 3 + Len(unit.channels)

\* C21: on connect the lines are PASS oauth:<token>, NICK <user>, the CAP REQ
\* line, then one JOIN #<chan> per configured channel in list order, and all of
\* them are written before the receiver, executor or sender writes any line.
C21_LoginOrder ==
    /\ \A n \in 1..Len(sock) : sock[n].by = -2 <=> n <= LoginLines
    /\ unit.phase # "login" => Len(sock) >= LoginLines
    /\ Len(sock) >= 1 => sock[1].line = <<"P", "A", "S", "S", " ", "o", "a", "u", "t", "h", ":", "p", "w">>
    /\ Len(sock) >= 2 => sock[2].line = <<"N", "I", "C", "K", " ">> \o Username
    /\ Len(sock) >= 3 => Take(sock[3].line, 9) = <<"C", "A", "P", " ", "R", "E", "Q", " ", ":">>
    /\ Len(sock) >= 4 => sock[4].line = <<"J", "O", "I", "N", " ", "#">> \o unit.channels[1]
    /\ Len(sock) >= 5 => sock[5].line = <<"J", "O", "I", "N", " ", "#">> \o unit.channels[2]
    /\ rx.pc # "idle" \/ cmdq # <<>> \/ cmds # <<>> \/ outq # <<>> \/ msgs # <<>>
            => Len(sock) >= LoginLines

\* after the five login lines the receiver wrote a PONG and the sender a PRIVMSG
C21_Witness ==
    /\ Len(sock) = LoginLines + 2
    /\ \E n \in 1..Len(sock) : sock[n].by = 0
    /\ \E n \in 1..Len(sock) : sock[n].by > 0

\* C22: once the socket stream has ended and the program has stopped, every
\* command that was in the raw-command queue has been executed and every
\* message that was in the outbound queue has been sent or turned down.
C22_ShutdownDrain ==
    unit.phase = "dropped"
        => /\ cmdq = <<>>
           /\ InFlight(cmds) = {}
           /\ outq = <<>>
           /\ InFlight(msgs) = {}

---------------------------------------------------------------------------
(* The Lua sandbox (lua.rs).  A script is what the run depends on: whether  *)
(* it compiles, whether it holds the "]]" that closes the long string it is *)
(* pasted into, how many VM instructions it executes, whether it then       *)
(* raises an error, and the value it returns.  The wrapper chunk executes   *)
(* some instructions of its own before it calls the script and at least     *)
(* one, the test of line 52, after pcall has returned.                      *)

MaxLimit == 5
MaxSteps == 3
MaxOverhead == 2

LuaValues ==
    {[kind |-> "nil", text |-> "nil"], [kind |-> "boolean", text |-> "true"],
     [kind |-> "integer", text |-> "124"], [kind |-> "string", text |-> "123123"]}

\* the Err(err) arm that forgets the flag the hook set
OnCallErrorDebug(timeout_raised) == "ERROR: RuntimeError"

\* lines 131-137: compiled.call returned Err(err)
OnCallError(timeout_raised) ==
    IF timeout_raised THEN "ERROR: instruction limit reached" ELSE "ERROR: RuntimeError"

Failed(text) == [ok |-> FALSE, text |-> text, instructions_left |-> 0]

\* lines 46-61 and 121-130: what run returns once its last instruction has
\* executed, converted to (ExecutionStatus, String) and matched
LuaReturn(u) ==
    CASE u.caught = "compile" -> Failed("ERROR: syntax error")
      [] u.caught = "script" -> Failed("ERROR: runtime error")
      [] u.caught = "timeout" -> Failed("ERROR: FromLuaConversionError to String")
      [] u.script.value.kind = "nil" -> Failed("ERROR: FromLuaConversionError to ExecutionStatus")
      [] u.script.value.kind \in {"integer", "number", "string"} ->
            [ok |-> TRUE, text |-> u.script.value.text, instructions_left |-> u.instructions]
      [] OTHER -> Failed("ERROR: FromLuaConversionError to String")

\* lines 105-118: the hook runs before every VM instruction; an error it raises
\* inside pcall is caught by pcall, any other ends the call
LuaInstruction ==
    /\ unit.pc \in {"pre", "script", "post"}
    /\ unit.left > 0
    /\ LET prev == unit.instructions
           counted == [unit EXCEPT !.instructions = prev - 1]
       IN  unit' = IF prev >= 1 THEN [counted EXCEPT !.left = @ - 1]
                   ELSE IF unit.pc = "script"
                   THEN [counted EXCEPT !.timeout_raised = TRUE, !.caught = "timeout",
                                        !.pc = "post", !.left = unit.post]
                   ELSE [counted EXCEPT !.timeout_raised = TRUE, !.pc = "done",
                                        !.outcome = Failed(OnCallError(TRUE))]
    /\ UNCHANGED <<now, appVars>>

\* lines 120, 139 and 46-61: the chunk is compiled, run loads the script, calls
\* it under pcall and returns
LuaNext ==
    /\ unit.pc \in {"load", "pre", "script", "post"}
    /\ unit.pc # "load" => unit.left = 0
    /\ unit' =
        CASE unit.pc = "load" ->
                IF unit.script.brackets
                THEN [unit EXCEPT !.pc = "done", !.outcome = Failed("ERROR: SyntaxError")]
                ELSE [unit EXCEPT !.pc = "pre", !.left = unit.pre]
          [] unit.pc = "pre" ->
                IF unit.script.compiles
                THEN [unit EXCEPT !.pc = "script", !.left = unit.script.steps]
                ELSE [unit EXCEPT !.pc = "post", !.left = unit.post, !.caught = "compile"]
          [] unit.pc = "script" ->
                [unit EXCEPT !.pc = "post", !.left = unit.post,
                             !.caught = IF unit.script.raises THEN "script" ELSE "none"]
          [] OTHER -> [unit EXCEPT !.pc = "done", !.outcome = LuaReturn(unit)]
    /\ UNCHANGED <<now, appVars>>

\* lines 91-103
InitLua ==
    /\ InitApp(TRUE)
    /\ \E compiles, brackets, raises \in BOOLEAN, steps \in 0..MaxSteps, value \in LuaValues,
          limit \in 0..MaxLimit, pre, post \in 1..MaxOverhead :
            unit = [script |-> [compiles |-> compiles, brackets |-> brackets, steps |-> steps,
                                raises |-> raises, value |-> value],
                    limit |-> limit, pre |-> pre, post |-> post,
                    pc |-> "load", left |-> 0, instructions |-> limit,
                    timeout_raised |-> FALSE, caught |-> "none", outcome |-> Failed("")]

NextLua == LuaInstruction \/ LuaNext

SpecLua == InitLua /\ [][NextLua]_vars

---------------------------------------------------------------------------
(* Properties of the Lua sandbox. *)

\* C23: every script that compiles, raises no error and needs fewer
\* instructions than the ceiling returns success carrying its stringified
\* result, whatever value it evaluates to, with instructions_left >= 0.
C23_SandboxSuccess ==
    /\ unit.pc = "done"
    /\ unit.script.compiles
    /\ ~unit.script.raises
    /\ unit.script.steps < unit.limit
    => /\ unit.outcome.ok
       /\ unit.outcome.text = unit.script.value.text
       /\ unit.outcome.instructions_left >= 0

\* C24: a script that executes more instructions than the ceiling never returns
\* success: the outcome is the error "instruction limit reached", also when the
\* hook's error was first raised inside pcall.
C24_InstructionCeiling ==
    /\ unit.pc = "done"
    /\ unit.script.compiles
    /\ ~unit.script.brackets
    /\ unit.script.steps > unit.limit
    => unit.outcome = Failed("ERROR: instruction limit reached")

\* a script ran into the ceiling inside pcall and the run still ended with the
\* instruction limit error
C24_Witness ==
    /\ unit.pc = "done"
    /\ unit.script.compiles
    /\ unit.script.steps > unit.limit
    /\ unit.limit > 0
    /\ unit.caught = "timeout"
    /\ unit.outcome = Failed("ERROR: instruction limit reached")

---------------------------------------------------------------------------
(* Properties of the cooldown gate for a handler that declares both a       *)
(* command and a user cooldown.                                             *)

\* this step took a command whose handler declares both cooldowns
GateBoth ==
    /\ Len(cmds') = Len(cmds) + 1
    /\ cmds'[Len(cmds')].name \in DOMAIN Commands
    /\ IsSome(Commands[cmds'[Len(cmds')].name].command)
    /\ IsSome(Commands[cmds'[Len(cmds')].name].user)

Taken == cmds'[Len(cmds')]

TakenPair == <<Taken.name, Taken.user>>

\* C25: the (command, user) entry is evaluated before the command entry: a
\* command taken while its user entry is cooling down is dropped and leaves the
\* command entry (and the user entry) as it was, so it delays nobody else.
C25_UserEntryFirst ==
    [][GateBoth =>
        /\ (/\ TakenPair \in DOMAIN userCd
            /\ userCd[TakenPair].last_accessed + userCd[TakenPair].value >= now)
           => /\ Taken.verdict = "cooldown"
              /\ cmdCd' = cmdCd
              /\ userCd' = userCd
        /\ (/\ Taken.verdict # "invoked"
            /\ TakenPair \in DOMAIN userCd'
            /\ userCd'[TakenPair].last_accessed + userCd'[TakenPair].value >= now)
           => cmdCd' = cmdCd]_vars

\* a user ran lua, asked again while only the user entry was cooling down, was
\* dropped, and the command entry still carries the instant of the first run
C25_Witness ==
    \E i, j \in 1..Len(cmds) :
        /\ i < j
        /\ cmds[i].name = S_lua /\ cmds[j].name = S_lua
        /\ cmds[i].user = cmds[j].user
        /\ cmds[i].verdict = "invoked"
        /\ cmds[j].verdict = "cooldown"
        /\ cmds[j].t - cmds[i].t > LuaCooldown
        /\ cmdCd[S_lua].last_accessed = cmds[i].t

\* C26: the cooldown step of a handler with both cooldowns is all-or-nothing:
\* either the handler is invoked and both entries are reset to the instant of
\* the call, or the command is dropped, neither the command entry nor an
\* existing user entry changes and a user entry made for the call is not reset.
C26_AllOrNothing ==
    [][GateBoth =>
        \/ /\ Taken.verdict = "invoked"
           /\ cmdCd'[Taken.name].last_accessed = now
           /\ userCd'[TakenPair].last_accessed = now
        \/ /\ Taken.verdict # "invoked"
           /\ cmdCd' = cmdCd
           /\ \A pair \in DOMAIN userCd : userCd'[pair] = userCd[pair]
           /\ \A pair \in DOMAIN userCd' \ DOMAIN userCd : userCd'[pair].last_accessed < now]_vars

\* one user ran lua; another, whose own entry is ready, was dropped on the
\* command cooldown and its entry was not reset
C26_Witness ==
    \E i, j \in 1..Len(cmds) :
        /\ i < j
        /\ cmds[i].name = S_lua /\ cmds[j].name = S_lua
        /\ cmds[i].user # cmds[j].user
        /\ cmds[i].verdict = "invoked"
        /\ cmds[j].verdict = "cooldown"
        /\ cmdCd[S_lua].last_accessed = cmds[i].t
        /\ userCd[<<S_lua, cmds[i].user>>].last_accessed = cmds[i].t
        /\ <<S_lua, cmds[j].user>> \in DOMAIN userCd
        /\ userCd[<<S_lua, cmds[j].user>>].last_accessed + UserCooldown < cmds[j].t

---------------------------------------------------------------------------
(* The readiness boundary of CooldownTracker::access. *)

\* C27: access(k) of a known key returns ready and sets last-access to now
\* exactly when now >= last-access + interval, otherwise not-ready(last-access +
\* interval - now) with the entry unchanged; access of an unknown key returns
\* none and changes nothing.
C27_ReadinessBoundary ==
    [][Returns("access") =>
        LET k == unit'.ret.key
        IN  IF k \notin DOMAIN unit.map
            THEN unit'.ret.state = None /\ unit'.map = unit.map
            ELSE IF now >= unit.map[k].last_accessed + unit.map[k].value
            THEN /\ unit'.ret.state = Some(Ready)
                 /\ unit'.map = [unit.map EXCEPT ![k].last_accessed = now]
            ELSE /\ unit'.ret.state
                      = Some(NotReady(unit.map[k].last_accessed + unit.map[k].value - now))
                 /\ unit'.map = unit.map]_vars

---------------------------------------------------------------------------
(* The order of the sender's steps and the guards it keeps. *)

\* C28: a body is pushed onto the history of its channel only after its
\* PRIVMSG line was written: every entry of a history is the trailing of a line
\* a sender future has written to that channel, so a body that was dropped or
\* is not yet written is in no history.
C28_PushAfterWrite ==
    \A c \in DOMAIN history :
        \A n \in 1..Len(history[c]) :
            \E k \in SenderLines : sock[k].line = PrivmsgLine(c, history[c][n].data)

\* C29: a sender future that is suspended (on the banphrase reply, on the
\* cooldown delay, or waiting for the sink lock or holding it) holds no guard of
\* the cooldown container.
C29_NoGuardWhileSuspended ==
    \A i \in 1..Len(msgs) :
        msgs[i].pc \in {"ban", "sleep", "lock", "write"} => ~HoldsGuard(msgs[i])

---------------------------------------------------------------------------
(* Command detection by the receiver. *)

\* the leading token of a trailing that makes it a command, if it has one
LeadingToken(trailing) ==
    IF StartsWith(trailing, CommandPrefix) THEN Some(CommandPrefix)
    ELSE IF StartsWith(trailing, <<"@">> \o Username) THEN Some(<<"@">> \o Username)
    ELSE None

\* this step dispatched a segment that is a PRIVMSG line
DispatchesPrivmsg ==
    /\ Len(rxLog') = Len(rxLog) + 1
    /\ Parse(rxLog'[Len(rxLog')].raw).ok
    /\ Parse(rxLog'[Len(rxLog')].raw).msg.name = S_PRIVMSG

\* C30: for a received PRIVMSG the receiver appends exactly one prepared command
\* to the raw-command queue iff the trailing starts with the prefix or with the
\* bot's at-mention, with the received line as raw line and the trailing without
\* that token, left-trimmed, as body; otherwise the queue is unchanged; in
\* neither case does the receiver send a line.
C30_CommandDetection ==
    [][DispatchesPrivmsg =>
        LET raw == rxLog'[Len(rxLog')].raw
            m == Parse(raw).msg
            token == IF IsSome(m.trailing) THEN LeadingToken(Unwrap(m.trailing)) ELSE None
        IN  /\ sock' = sock /\ rx'.pc # "lock"
            /\ IF IsSome(token)
               THEN cmdq' = Append(cmdq,
                        [message |-> raw,
                         command |-> TrimStart(Drop(Unwrap(m.trailing), Len(Unwrap(token))))])
               ELSE cmdq' = cmdq]_vars

---------------------------------------------------------------------------
(* USERSTATE lines (messaging.rs 145-161): the receiver fed with USERSTATE  *)
(* frames for two joined channels and one it never joined, while the sender *)
(* works on messages for one of them.                                       *)

S_vip == <<"v", "i", "p", "/", "1">>

UserstateLine(badges, channel) ==
    (IF IsSome(badges) THEN <<"@">> \o S_badges \o <<"=">> \o Unwrap(badges) \o <<" ">> ELSE <<>>)
    \o S_USERSTATE \o <<" ", "#">> \o channel

UserstateFrames ==
    {UserstateLine(Some(S_moderator \o <<"/", "1">>), S_c),
     UserstateLine(Some(S_vip \o <<",">> \o S_moderator), S_x),
     UserstateLine(Some(S_vip), S_c),
     UserstateLine(None, S_c),
     UserstateLine(Some(S_moderator), S_zz)}

InitUserstate == InitChannels(TRUE, {S_c, S_x}) /\ unit = <<>>

NextUserstate ==
    \/ Tick
    \/ \E frame \in UserstateFrames : RecvFrame(frame)
    \/ RxDispatch
    \/ nSubmitted = 0 /\ Submit(S_c, S_hi)
    \/ SenderStep

SpecUserstate == InitUserstate /\ [][NextUserstate]_vars

\* this step dispatched a segment that is a USERSTATE line naming a channel
DispatchesUserstate ==
    /\ Len(rxLog') = Len(rxLog) + 1
    /\ Parse(rxLog'[Len(rxLog')].raw).ok
    /\ Parse(rxLog'[Len(rxLog')].raw).msg.name = S_USERSTATE
    /\ Parse(rxLog'[Len(rxLog')].raw).msg.args # <<>>

\* the badges tag of the line has a comma-separated item starting with moderator
ModeratorBadge(m) ==
    /\ S_badges \in DOMAIN m.tags
    /\ IsSome(m.tags[S_badges])
    /\ LET items == SplitChar(Unwrap(m.tags[S_badges]), ",")
       IN  \E n \in 1..Len(items) : StartsWith(items[n], S_moderator)

\* C31: a USERSTATE for a channel c the tracker knows, with a moderator badge,
\* sets the interval of c to the moderator interval and leaves its last access,
\* every other entry, the history and both queues as they were; a USERSTATE
\* without that badge, or for an unknown channel, changes no cooldown entry.
C31_UserstateFrame ==
    [][DispatchesUserstate =>
        LET m == Parse(rxLog'[Len(rxLog')].raw).msg
            c == Tail(m.args[1])
        IN  /\ history' = history /\ cmdq' = cmdq /\ outq' = outq
            /\ IF ModeratorBadge(m) /\ c \in DOMAIN chanCd
               THEN chanCd' = [chanCd EXCEPT ![c].value = ModeratorCd]
               ELSE chanCd' = chanCd]_vars

\* the interval of one channel was lowered while the other kept its own, a
\* message was in the history and a line had been written
C31_Witness ==
    /\ \E c \in DOMAIN chanCd : chanCd[c].value = ModeratorCd
    /\ \E c \in DOMAIN chanCd : chanCd[c].value = ChannelCooldown
    /\ \E n \in 1..Len(rxLog) : rxLog[n].what = "none"
    /\ history[S_c] # <<>>
    /\ sock # <<>>

\* C40: the interval of every channel is the initial interval or the moderator
\* interval, and once it is the moderator interval it stays so, also after a
\* later USERSTATE without a moderator badge.
C40_ChannelInterval ==
    /\ [](\A c \in DOMAIN chanCd : chanCd[c].value \in {ChannelCooldown, ModeratorCd})
    /\ [][\A c \in DOMAIN chanCd :
            chanCd[c].value = ModeratorCd => chanCd'[c].value = ModeratorCd]_vars

\* a moderator USERSTATE for c was followed by one without the badge, and the
\* interval of c is still the moderator interval
C40_Witness ==
    \E n1, n2 \in 1..Len(rxLog) :
        /\ n1 < n2
        /\ rxLog[n1].what = "moderator"
        /\ rxLog[n1].raw = UserstateLine(Some(S_moderator \o <<"/", "1">>), S_c)
        /\ rxLog[n2].raw = UserstateLine(Some(S_vip), S_c)
        /\ chanCd[S_c].value = ModeratorCd

---------------------------------------------------------------------------
(* Further properties of the codec. *)

\* the tag pairs of a line in the order they appear in it
PairsInLine(line) ==
    SelectNonEmpty(SplitChar(SubSeq(line, 2, FindChar(line, " ") - 1), ";"))

\* the tag section of a written line, without the @ and the space
WrittenTags(text) ==
    IF text # <<>> /\ text[1] = "@" THEN SubSeq(text, 2, FindChar(text, " ") - 1) ELSE <<>>

\* C32: the tags of a message are written in the order they were inserted, the
\* order of the parsed line, joined by semicolons, key=value with a value and
\* the bare key without.
C32_TagOrder ==
    (/\ unit.stage = "done"
     /\ unit.line[1] = "@"
     /\ \A i, j \in 1..Len(PairsInLine(unit.line)) :
            i # j => SplitN2(PairsInLine(unit.line)[i], "=")[1]
                       # SplitN2(PairsInLine(unit.line)[j], "=")[1])
    => WrittenTags(unit.text) = Join(PairsInLine(unit.line), <<";">>)

\* nothing is left for the command once tags and prefix are read, or the
\* command section is empty before the " :" sentinel
NoCommandName(line) ==
    LET afterTags == IF line # <<>> /\ line[1] = "@" /\ FindChar(line, " ") # 0
                     THEN Drop(line, FindChar(line, " ")) ELSE line
        afterPrefix == IF afterTags # <<>> /\ afterTags[1] = ":" /\ FindChar(afterTags, " ") # 0
                       THEN Drop(afterTags, FindChar(afterTags, " ")) ELSE afterTags
    IN  /\ afterTags # line \/ afterPrefix # afterTags \/ StartsWith(line, <<" ", ":">>)
        /\ afterPrefix = <<>> \/ StartsWith(afterPrefix, <<" ", ":">>)

\* C33: a line with no command name is rejected with the missing-command
\* error, and parse never returns a message whose command name is empty.
C33_MissingCommand ==
    unit.stage # "raw"
    => /\ unit.first.ok => unit.first.msg.name # <<>>
       /\ NoCommandName(unit.line) => ~unit.first.ok /\ unit.first.err = "Command expected"

---------------------------------------------------------------------------
(* The multichannel event queue (event.rs), one channel of it.  The heap is *)
(* the set of the events it holds; id is the number of the submit call that *)
(* made the event.  Ord compares timestamps only, and a BinaryHeap promises *)
(* no order among elements that compare equal: peek and pop yield any of    *)
(* the events with the earliest timestamp.                                  *)

MaxEvents == 3
MinDelay == 1
EventTtls == {1, MaxTime}

\* lines 29-35 and 73: the events peek may yield
HeapTop(queue) == {e \in queue : \A o \in queue : e.timestamp <= o.timestamp}

NextReady(e) == [kind |-> "Ready", id |-> e.id, at |-> 0]
NextNotReady(t) == [kind |-> "NotReady", id |-> 0, at |-> t]
ChannelIsEmpty == [kind |-> "ChannelIsEmpty", id |-> 0, at |-> 0]

\* lines 72-92: Channel::get_first_non_expired at instant t, every outcome
RECURSIVE get_first_non_expired(_, _)
get_first_non_expired(ch, t) ==
    IF ch.queue = {} THEN {[ch |-> ch, ret |-> ChannelIsEmpty]}
    ELSE UNION {
            IF e.timestamp + e.ttl < t
            THEN get_first_non_expired([ch EXCEPT !.queue = @ \ {e}], t)
            ELSE LET next_ready == ch.last_event_ts + ch.min_delay
                 IN  IF next_ready < t
                     THEN {[ch |-> [ch EXCEPT !.queue = @ \ {e}, !.last_event_ts = t],
                            ret |-> NextReady(e)]}
                     ELSE {[ch |-> ch, ret |-> NextNotReady(next_ready)]}
            : e \in HeapTop(ch.queue)}

\* lines 124-132: submit(channel, ttl, data)
UnitSubmit(ttl) ==
    /\ unit.submitted < MaxEvents
    /\ unit' = [unit EXCEPT
            !.submitted = @ + 1,
            !.ch.queue = @ \cup {[id |-> unit.submitted + 1, timestamp |-> now, ttl |-> ttl]}]
    /\ UNCHANGED <<now, appVars>>

\* lines 137-141: next(channel)
UnitNext ==
    /\ unit.calls < MaxEvents + 1
    /\ \E r \in get_first_non_expired(unit.ch, now) :
         unit' = [unit EXCEPT
            !.ch = r.ch,
            !.calls = @ + 1,
            !.dropped = @ \cup ({e.id : e \in (unit.ch.queue \ r.ch.queue)} \ {r.ret.id}),
            !.delivered = IF r.ret.kind = "Ready" THEN Append(@, r.ret.id) ELSE @]
    /\ UNCHANGED <<now, appVars>>

\* lines 63-69 and 113-119
InitEvents ==
    /\ InitApp(TRUE)
    /\ unit = [ch |-> [queue |-> {}, min_delay |-> MinDelay, last_event_ts |-> now - MinDelay],
               submitted |-> 0, calls |-> 0, dropped |-> {}, delivered |-> <<>>]

NextEvents == TickFree \/ UnitNext \/ \E ttl \in EventTtls : UnitSubmit(ttl)

SpecEvents == InitEvents /\ [][NextEvents]_vars

\* C34: the events next hands out as Ready come in the order they were
\* submitted, also when several were submitted at one instant.
C34_SubmissionOrder ==
    \A i, j \in 1..Len(unit.delivered) : i < j => unit.delivered[i] < unit.delivered[j]

---------------------------------------------------------------------------
(* Further properties of the sender. *)

---------------------------------------------------------------------------
(* The cooldown map as a lock (cooldown.rs 111-120, lib.rs 73-91).  The     *)
(* guard access_raw returns is a read lock of the entry's bucket; update    *)
(* takes the write lock of the same bucket with get_mut, a call that blocks *)
(* the thread.  The receiver runs under block_on on the main thread, the    *)
(* sender is one spawned task that polls all its futures on one thread.     *)
(* Whether a reader that arrives while a writer waits is let in is the      *)
(* lock's policy: both outcomes are taken.  A reader that is not let in     *)
(* blocks inside access_raw, and with it the task that polls every future   *)
(* of the sender.                                                           *)

StallFrames ==
    {UserstateLine(Some(S_moderator \o <<"/", "1">>), S_c)}

\* the receiver is inside update(c, MODERATOR_CD) and a sender future holds a
\* read guard of c
WriterWaiting(c) ==
    /\ rx.pc = "dispatch"
    /\ \E a \in {RxAction(Head(rx.pending))} : a.what = "moderator" /\ a.arg = c
    /\ \E i \in 1..Len(msgs) : HoldsGuard(msgs[i]) /\ msgs[i].channel = c

\* messaging.rs 210 and 273: a sender future calls access_raw(c) while the
\* receiver waits for the write lock, and is queued behind it
SenderBlocks ==
    /\ ~unit.blocked
    /\ \E c \in Channels :
         /\ WriterWaiting(c)
         /\ \/ /\ outq # <<>>
               /\ Cardinality(InFlight(msgs)) < Concurrency
               /\ Head(outq).channel = c
            \/ \E i \in 1..Len(msgs) : msgs[i].pc = "push" /\ msgs[i].channel = c
    /\ unit' = [unit EXCEPT !.blocked = TRUE]
    /\ UNCHANGED <<now, appVars>>

\* the clock goes on when no sender future can run, also past a blocked
\* sender task; the receiver has a thread of its own and may be slow
StallTick ==
    /\ now < MaxTime
    /\ unit.blocked \/ ~SenderRunnable
    /\ now' = now + 1
    /\ UNCHANGED <<unit, appVars>>

InitStall == InitApp(TRUE) /\ unit = [blocked |-> FALSE]

NextStall ==
    \/ StallTick
    \/ \E frame \in StallFrames : RecvFrame(frame)
    \/ RxDispatch
    \/ nSubmitted < 2 /\ Submit(S_c, S_hi)
    \/ ~unit.blocked /\ SenderStep
    \/ SenderBlocks

SpecStall == InitStall /\ [][NextStall]_vars

\* the scheduler polls the sender task whenever one of its futures can run,
\* and the clock goes on
FairStall ==
    /\ SpecStall
    /\ WF_vars(StallTick)
    /\ WF_vars(~unit.blocked /\ SenderStep)

\* C36: every message taken for a known channel whose banphrase reply says
\* "not banned" is eventually written to the socket (unless its delay ends
\* after the last instant of the clock), and no future writes twice.
C36_OutboundDelivery ==
    /\ \A i \in 1..MaxMsgs :
          (i <= Len(msgs) /\ BanphraseVerdict(msgs[i].reply) = "clean")
          ~> (\/ WrittenIdx(i) > 0
              \/ i <= Len(msgs) /\ msgs[i].pc = "sleep" /\ msgs[i].wake > MaxTime)
    /\ [](\A n1, n2 \in SenderLines : sock[n1].by = sock[n2].by => n1 = n2)

\* C37: the receiver never waits for a guard of the sender while the sender
\* task waits for the receiver's write lock.
C37_NoMutualWait ==
    ~(unit.blocked /\ \E c \in Channels : WriterWaiting(c))

---------------------------------------------------------------------------
(* Commands that place no message (executor.rs 79-203): the executor fed   *)
(* with commands whose handler returns SilentSuccess or Error, for the      *)
(* three cooldown declarations, with a command the user may not run, one    *)
(* of an unknown name, and one that returns Success.                        *)

SilentInputs ==
    {<<Some(S_m), Some(S_c), S_echo>>,
     <<Some(S_p), Some(S_c), S_lua>>,
     <<Some(S_m), Some(S_c), S_lua>>,
     <<Some(S_p), Some(S_c), S_uo>>,
     <<Some(S_p), Some(S_c), S_echo>>,
     <<Some(S_p), Some(S_c), S_zz>>,
     <<Some(S_p), Some(S_c), S_lua \o <<" ">> \o S_hi>>}

NextSilent ==
    \/ Tick
    \/ \E in \in SilentInputs : Issue(in[1], in[2], in[3])
    \/ ExecStep
    \/ SenderTake

SpecSilent == InitWith(TRUE) /\ [][NextSilent]_vars

\* the handler ran for command i and returned SilentSuccess or Error
InvokedSilently(i) == Invoked(i) /\ cmds[i].out.kind \in {"silent", "error"}

\* command j repeats command i (same name, same user) inside an interval the
\* handler declares
RepeatsWithin(i, j) ==
    /\ i < j
    /\ cmds[j].name = cmds[i].name
    /\ cmds[j].user = cmds[i].user
    /\ LET h == Commands[cmds[i].name]
           d == cmds[j].t - cmds[i].t
       IN  \/ IsSome(h.command) /\ d < Unwrap(h.command)
           \/ IsSome(h.user) /\ d < Unwrap(h.user)

\* C38: after an invocation whose handler returned SilentSuccess or Error the
\* declared entries are reset at the instant of the invocation or later, no
\* message is placed for it, and a repeat by the same user inside a declared
\* interval is dropped on the cooldown.
C38_ConsumedBeforeHandler ==
    \A i \in 1..Len(cmds) :
        InvokedSilently(i)
        => LET h == Commands[cmds[i].name]
               pair == <<cmds[i].name, cmds[i].user>>
           IN  /\ ~Placed(i) /\ cmds[i].pc = "done"
               /\ IsSome(h.command) => cmdCd[cmds[i].name].last_accessed >= cmds[i].t
               /\ IsSome(h.user) => /\ pair \in DOMAIN userCd
                                    /\ userCd[pair].last_accessed >= cmds[i].t
               /\ \A j \in 1..Len(cmds) :
                     RepeatsWithin(i, j) => cmds[j].verdict = "cooldown"

\* lua without a script returned Error and the same user's repeat, later than
\* the command interval but inside the user interval, was dropped on the cooldown
C38_Witness ==
    \E i, j \in 1..Len(cmds) :
        /\ InvokedSilently(i) /\ cmds[i].out.kind = "error"
        /\ RepeatsWithin(i, j)
        /\ cmds[j].t - cmds[i].t > LuaCooldown
        /\ cmds[j].verdict = "cooldown"

\* this step took a command that names no handler, or a handler the level of
\* its user does not permit
TakesDropped ==
    /\ Len(cmds') = Len(cmds) + 1
    /\ \/ Taken.name \notin DOMAIN Commands
       \/ /\ Commands[Taken.name].level = Admin
          /\ (IF Taken.user \in DOMAIN Permissions THEN Permissions[Taken.user] ELSE User) = User

\* C39: a command dropped for its unknown name or for the missing permission
\* changes neither tracker; and no step removes or replaces a (command, user)
\* entry: its interval stays and its last access stays or becomes the instant
\* of the step.
C39_DroppedLeavesTrackers ==
    [][/\ TakesDropped
          => /\ Taken.verdict \in {"no_command", "no_permission"}
             /\ cmdCd' = cmdCd
             /\ userCd' = userCd
       /\ \A pair \in DOMAIN userCd :
             /\ pair \in DOMAIN userCd'
             /\ userCd'[pair].value = userCd[pair].value
             /\ userCd'[pair].last_accessed \in {userCd[pair].last_accessed, now}]_vars

\* a user ran lua at one instant; at a later one a command of that user was
\* dropped for its name or for the permission, and the entry of the first run
\* is as that run left it
C39_Witness ==
    \E i, j \in 1..Len(cmds) :
        /\ i < j
        /\ cmds[i].name = S_lua /\ Invoked(i)
        /\ cmds[j].user = cmds[i].user
        /\ cmds[j].verdict \in {"no_command", "no_permission"}
        /\ cmds[j].t > cmds[i].t
        /\ userCd[<<S_lua, cmds[i].user>>].last_accessed = cmds[i].t
        /\ cmdCd[S_lua].last_accessed = cmds[i].t

=============================================================================
